---- MODULE Spec2Model ----
(***************************************************************************)
(* A model of the write-ahead log of wal.go: the in-memory state snapshot, *)
(* the single-writer transaction engine (mutateStateLocked), StoreLogs,    *)
(* the rotation worker, TruncateFront / TruncateBack and Close.            *)
(*                                                                         *)
(* The SegmentFiler / MetaStore / SegmentWriter collaborators are the      *)
(* in-memory testStorage / testSegment of the repository's tests.  The     *)
(* methods of the state snapshot (firstIndex, lastIndex, getLog,           *)
(* getTailInfo, clone, Persistent) are not part of the available sources   *)
(* and are modelled from sections 3 and 4.1 of the specification.          *)
(*                                                                         *)
(* Every public operation is one action: it runs from its closed check to  *)
(* its return, with the writer lock held for the whole body, and the       *)
(* finalizer of a state it replaced runs when the operation drops its      *)
(* reference on return.  The rotation worker is a separate action, so a    *)
(* truncation can run between a seal-triggering StoreLogs and the rotate.  *)
(***************************************************************************)
EXTENDS Integers, Sequences, FiniteSets, TLC

\* ------------------------------------------------------------------ bounds
\* Largest log index a caller uses (indices are 0 .. MaxIndex).
MaxIndex == 3
\* Longest batch handed to StoreLogs.
MaxBatch == 2
\* Segment IDs are capped: no transaction starts once nextSegmentID reached it.
MaxSegID == 3
\* Number of entries after which a testSegment reports sealed.
limit == 2
\* Number of calls per WAL that are in flight between their closed check and
\* the writer lock.
MaxInFlight == 1
\* the number of concurrent readers
MaxReaders == 1
\* the number of states published after the first one while readers run
MaxGen == 3
\* the number of concurrent StoreLogs callers
MaxCallers == 2
\* the number of StoreLogs calls the concurrent callers make
MaxCalls == 3

\* ---------------------------------------------------------------- constants
\* The index block offset every testSegment reports from Sealed().
TestIndexStart == 12345

\* A nil SegmentReader / SegmentWriter handle.
NoSeg == -1

Indexes == 0 .. MaxIndex
\* The payloads an entry can carry.
Data == {1, 2}

VARIABLES
    closed,         \* WAL.closed (0 or 1); 2 when Open failed and returned no WAL
    s,              \* WAL.s: the published *state
    metaState,      \* testStorage.metaState: the committed PersistentState
    testSegments,   \* every testSegment object ever created, by segment ID
    tsSegments,     \* testStorage.segments: IDs of the segment files that exist
    tsDeleted,      \* testStorage.deleted: IDs of the files Delete removed
    createErr,      \* testStorage.createErr: TRUE when Create is set to fail
    commitErr,      \* testStorage.commitErr: TRUE when CommitState is set to fail
    triggerRotate,  \* WAL.triggerRotate: 1-buffered channel [buf, closed]
    awaitRotate,    \* WAL.awaitRotate: 0 = nil, 1 = a channel not yet closed
    rotateRunning,  \* TRUE while the runRotate goroutine has not returned
    pending,        \* the call in flight: past its closed check, not yet at
                    \* the writer lock or the state (NoCall = none)
    nPending,       \* number of calls that have been in flight so far
    snap,           \* what the reads returned when Close was called, until the
                    \* next Open
    ret,            \* name and returned error of the last call
    hist,           \* the caller's record of the LogStore contract: the payload
                    \* of every index it stored and has not truncated since
                    \* (0 = no entry)
    gen,            \* which *state WAL.s points to: the number of states
                    \* published before it while readers run
    objs,           \* the state objects by number: refCount, the finalizer
                    \* slot, and how often the finalizer has run
    rd,             \* the readers: position in acquireState / read / release,
                    \* the *state loaded and what the read returned
    sl,             \* the concurrent StoreLogs callers: position, batch, the
                    \* channel waited on, and what the call found at Append
    chs,            \* the awaitRotate channels: how many were made, which
                    \* are closed
    writeMu,        \* WAL.writeMu across steps: 0 = free, c = held by caller c
    rot             \* the rotation worker between its receive and its Lock

vars == <<closed, s, metaState, testSegments, tsSegments, tsDeleted, createErr, commitErr,
          triggerRotate, awaitRotate, rotateRunning, pending, nPending, snap, ret,
          hist, gen, objs, rd, sl, chs, writeMu, rot>>

\* The StoreLogs callers and the rotation worker between their steps.
waiters == <<sl, chs, writeMu, rot>>

\* The reference counts and the goroutines that run beside the handlers.
procs == <<gen, objs, rd, waiters>>

\* What no handler of the WAL changes: the callers' positions, what they
\* remember of the log, and the fault the storage is set to inject.
callers == <<pending, nPending, snap, createErr, commitErr, procs>>

\* The part of the world a transaction reads and writes.
World == [s |-> s, metaState |-> metaState, testSegments |-> testSegments,
          tsSegments |-> tsSegments, tsDeleted |-> tsDeleted, createErr |-> createErr,
          commitErr |-> commitErr]

\* ------------------------------------------------------- small helpers
Last(seq) == seq[Len(seq)]

\* types.SegmentInfo of a fresh segment (WAL.newSegment), without a reader.
newSegment(ID, baseIndex) ==
    [ID |-> ID, BaseIndex |-> baseIndex, MinIndex |-> baseIndex, MaxIndex |-> 0,
     IndexStart |-> 0, SealTime |-> 0, r |-> NoSeg]

\* types.SegmentInfo part of a segmentState.
SegmentInfo(ss) ==
    [ID |-> ss.ID, BaseIndex |-> ss.BaseIndex, MinIndex |-> ss.MinIndex,
     MaxIndex |-> ss.MaxIndex, IndexStart |-> ss.IndexStart, SealTime |-> ss.SealTime]

\* ------------------------------------------ immutable.SortedMap operations
\* The map is a sequence of segmentStates in ascending BaseIndex order.
MapDelete(segs, key) == SelectSeq(segs, LAMBDA e : e.BaseIndex # key)

MapSet(segs, ss) ==
    LET lower == SelectSeq(segs, LAMBDA e : e.BaseIndex < ss.BaseIndex)
        upper == SelectSeq(segs, LAMBDA e : e.BaseIndex > ss.BaseIndex)
    IN lower \o <<ss>> \o upper

\* ------------------------------------------------------------ testSegment
\* testSegment.LastIndex
segLastIndex(seg) == IF Len(seg.logs) = 0 THEN 0 ELSE Last(seg.logs).Index

\* testSegment.Sealed (the bool result; the offset is TestIndexStart)
segSealed(seg) == Len(seg.logs) >= limit

\* testSegment.GetLog
segGetLog(seg, idx) ==
    IF seg.closed THEN [err |-> "closed", Data |-> 0]
    ELSE IF idx < seg.info.MinIndex \/ (seg.info.MaxIndex > 0 /\ idx > seg.info.MaxIndex)
    THEN [err |-> "ErrNotFound", Data |-> 0]
    ELSE IF \E i \in 1 .. Len(seg.logs) : seg.logs[i].Index = idx
    THEN [err |-> "nil",
          Data |-> seg.logs[CHOOSE i \in 1 .. Len(seg.logs) : seg.logs[i].Index = idx].Data]
    ELSE [err |-> "ErrNotFound", Data |-> 0]

\* A segment writer that does not validate the indexes it is given.
segAppendOK_Unchecked(base, n, entries) == TRUE

\* The loop of testSegment.Append: every entry must land on BaseIndex + Len.
RECURSIVE segAppendOK(_, _, _)
segAppendOK(base, n, entries) ==
    \/ entries = <<>>
    \/ /\ Head(entries).Index = base + n
       /\ segAppendOK(base, n + 1, Tail(entries))

\* testSegment.Append
segAppend(seg, entries) ==
    IF segSealed(seg) THEN [err |-> "ErrSealed", seg |-> seg]
    ELSE IF seg.closed THEN [err |-> "closed", seg |-> seg]
    ELSE IF ~segAppendOK(seg.info.BaseIndex, Len(seg.logs), entries)
    THEN [err |-> "non-monotonic append", seg |-> seg]
    ELSE [err |-> "nil", seg |-> [seg EXCEPT !.logs = @ \o entries]]

\* ------------------------------------------------------------ testStorage
\* testStorage.CommitState: replaces the committed state and refreshes the
\* info of every existing testSegment named in it.
CommitState(w, ps) ==
    [w EXCEPT !.metaState = ps,
              !.testSegments =
                  [id \in DOMAIN w.testSegments |->
                      IF id \in w.tsSegments
                         /\ \E i \in 1 .. Len(ps.Segments) : ps.Segments[i].ID = id
                      THEN [w.testSegments[id] EXCEPT !.info =
                               ps.Segments[CHOOSE i \in 1 .. Len(ps.Segments) :
                                               /\ ps.Segments[i].ID = id
                                               /\ \A j \in (i + 1) .. Len(ps.Segments) :
                                                      ps.Segments[j].ID # id]]
                      ELSE w.testSegments[id]]]

\* What testStorage.CommitState returns after it replaced the committed
\* state: the error the storage is set to inject.
commitError(w) == IF w.commitErr THEN "commitErr" ELSE "nil"

\* testStorage.Create: the segment is stored before createErr is returned.
\* The testSegment remembers in metaFirst whether the committed metadata
\* listed info when Create was called.
Create(w, info) ==
    IF info.ID \in w.tsSegments
    THEN [err |-> "segment ID already exists", w |-> w]
    ELSE [err |-> IF w.createErr THEN "createErr" ELSE "nil",
          w |-> [w EXCEPT !.tsSegments = @ \cup {info.ID},
                          !.testSegments =
                              [id \in DOMAIN @ \cup {info.ID} |->
                                  IF id = info.ID
                                  THEN [info |-> info, logs |-> <<>>, closed |-> FALSE,
                                        metaFirst |->
                                            \E i \in 1 .. Len(w.metaState.Segments) :
                                                w.metaState.Segments[i] = info]
                                  ELSE @[id]]]]

\* testStorage.Delete
Delete(w, ID) ==
    [w EXCEPT !.tsSegments = @ \ {ID},
              !.tsDeleted = IF ID \in w.tsSegments THEN @ \cup {ID} ELSE @]

\* ------------------------------------------------------- state snapshot
\* state.getTailInfo: a copy of the last segment, or NoSeg when there is none.
HasTailInfo(st) == Len(st.segments) > 0
getTailInfo(st) == Last(st.segments)

\* LastIndex of the live tail writer; a nil tail has no content.
tailLastIndex(w, st) ==
    IF st.tail = NoSeg THEN 0 ELSE segLastIndex(w.testSegments[st.tail])

\* state.lastIndex
lastIndex(w, st) ==
    LET sealedSegs == SelectSeq(st.segments, LAMBDA e : e.SealTime # 0)
    IN IF tailLastIndex(w, st) > 0 THEN tailLastIndex(w, st)
       ELSE IF Len(sealedSegs) > 0 THEN Last(sealedSegs).MaxIndex
       ELSE 0

\* state.firstIndex
firstIndex(w, st) ==
    IF Len(st.segments) = 0 \/ lastIndex(w, st) = 0 THEN 0
    ELSE st.segments[1].MinIndex

\* state.getLog
getLog(w, st, idx) ==
    LET cands == SelectSeq(st.segments, LAMBDA e : e.BaseIndex <= idx)
    IN IF Len(cands) = 0 THEN [err |-> "ErrNotFound", Data |-> 0]
       ELSE LET S == Last(cands)
            IN IF S.MinIndex > idx \/ (S.SealTime # 0 /\ idx > S.MaxIndex)
               THEN [err |-> "ErrNotFound", Data |-> 0]
               ELSE IF S.r = NoSeg THEN [err |-> "nil reader", Data |-> 0]
               ELSE segGetLog(w.testSegments[S.r], idx)

\* state.clone
clone(st) ==
    [segments |-> st.segments, tail |-> st.tail,
     nextSegmentID |-> st.nextSegmentID, nextBaseIndex |-> st.nextBaseIndex]

\* state.Persistent
Persistent(st) ==
    [NextSegmentID |-> st.nextSegmentID,
     Segments |-> [i \in 1 .. Len(st.segments) |-> SegmentInfo(st.segments[i])]]

\* ------------------------------------------------- transaction engine
\* A finalizer: the readers to close and the segment files to delete.
NoFin == [toClose |-> {}, toDelete |-> {}]

\* WAL.closeSegments
closeSegments(w, toClose) ==
    [w EXCEPT !.testSegments =
        [id \in DOMAIN @ |-> IF id \in toClose /\ id # NoSeg
                             THEN [@[id] EXCEPT !.closed = TRUE] ELSE @[id]]]

\* WAL.deleteSegments
RECURSIVE deleteSegments(_, _)
deleteSegments(w, toDelete) ==
    IF toDelete = {} THEN w
    ELSE LET ID == CHOOSE x \in toDelete : TRUE
         IN deleteSegments(Delete(w, ID), toDelete \ {ID})

\* The finalizer closures of the truncations and of the re-basing.
runFinalizer(w, fin) == deleteSegments(closeSegments(w, fin.toClose), fin.toDelete)

\* WAL.createNextSegment: adds the next tail, without a reader, to newState
\* and returns it as the segment its postCommit has to create.
createNextSegment(newState) ==
    LET nextBaseIndex == IF HasTailInfo(newState) THEN getTailInfo(newState).MaxIndex + 1
                         ELSE IF newState.nextBaseIndex > 0 THEN newState.nextBaseIndex
                         ELSE 1
        newTail == newSegment(newState.nextSegmentID, nextBaseIndex)
    IN [newState |-> [newState EXCEPT !.nextSegmentID = @ + 1,
                                      !.segments = MapSet(@, newTail)],
        post |-> newTail]

\* The postCommit closure createNextSegment returns.
postCommit(w, newState, newTail) ==
    LET c == Create(w, SegmentInfo(newTail))
    IN IF c.err # "nil" THEN [err |-> c.err, w |-> c.w, newState |-> newState]
       ELSE [err |-> "nil", w |-> c.w,
             newState |-> [newState EXCEPT
                              !.tail = newTail.ID,
                              !.segments = MapSet(@, [newTail EXCEPT !.r = newTail.ID])]]

\* A mutateStateLocked that runs postCommit before it commits the metadata.
mutateStateLocked_CreateFirst(w, tx) ==
    IF tx.err # "nil" THEN [err |-> tx.err, w |-> w, fin |-> NoFin]
    ELSE IF ~tx.hasPost
    THEN [err |-> "nil",
          w |-> [CommitState(w, Persistent(tx.newState)) EXCEPT !.s = tx.newState],
          fin |-> tx.fin]
    ELSE LET pc == postCommit(w, tx.newState, tx.post)
         IN IF pc.err # "nil"
            THEN [err |-> pc.err, w |-> pc.w, fin |-> NoFin]
            ELSE [err |-> "nil",
                  w |-> [CommitState(pc.w, Persistent(pc.newState)) EXCEPT
                            !.s = pc.newState],
                  fin |-> tx.fin]

\* WAL.mutateStateLocked, for a transaction that returned tx =
\* [err, newState, fin, hasPost, post].  The result carries the finalizer that
\* was attached to the replaced state.
mutateStateLocked(w, tx) ==
    IF tx.err # "nil" THEN [err |-> tx.err, w |-> w, fin |-> NoFin]
    ELSE LET w1 == CommitState(w, Persistent(tx.newState))
         IN IF commitError(w) # "nil"
            THEN [err |-> commitError(w), w |-> w1, fin |-> NoFin]
            ELSE IF ~tx.hasPost
            THEN [err |-> "nil", w |-> [w1 EXCEPT !.s = tx.newState], fin |-> tx.fin]
            ELSE LET pc == postCommit(w1, tx.newState, tx.post)
                 IN IF pc.err # "nil"
                    THEN [err |-> pc.err, w |-> pc.w, fin |-> NoFin]
                    ELSE [err |-> "nil", w |-> [pc.w EXCEPT !.s = pc.newState],
                          fin |-> tx.fin]

TxError(msg, newState) ==
    [err |-> msg, newState |-> newState, fin |-> NoFin, hasPost |-> FALSE,
     post |-> newSegment(0, 0)]

\* A rotation that seals the tail without recording its MaxIndex.
rotateTxn_NoMaxIndex(w, newState, indexStart) ==
    IF ~HasTailInfo(newState) THEN TxError("no tail found during rotate", newState)
    ELSE LET tail == [getTailInfo(newState) EXCEPT
                         !.SealTime = 1,
                         !.IndexStart = indexStart]
             c == createNextSegment([newState EXCEPT !.segments = MapSet(@, tail)])
         IN [err |-> "nil", newState |-> c.newState, fin |-> NoFin,
             hasPost |-> TRUE, post |-> c.post]

\* The transaction of WAL.rotateSegmentLocked.
rotateTxn(w, newState, indexStart) ==
    IF ~HasTailInfo(newState) THEN TxError("no tail found during rotate", newState)
    ELSE LET tail == [getTailInfo(newState) EXCEPT
                         !.SealTime = 1,
                         !.MaxIndex = tailLastIndex(w, newState),
                         !.IndexStart = indexStart]
             c == createNextSegment([newState EXCEPT !.segments = MapSet(@, tail)])
         IN [err |-> "nil", newState |-> c.newState, fin |-> NoFin,
             hasPost |-> TRUE, post |-> c.post]

\* WAL.rotateSegmentLocked
rotateSegmentLocked(w, indexStart) ==
    mutateStateLocked(w, rotateTxn(w, clone(w.s), indexStart))

\* The transaction of WAL.resetEmptyFirstSegmentBaseIndex.
resetTxn(w, newState, newBaseIndex) ==
    IF lastIndex(w, newState) > 0
    THEN TxError("can't reset BaseIndex on segment, log is not empty", newState)
    ELSE IF HasTailInfo(newState) /\ getTailInfo(newState).BaseIndex = newBaseIndex
    THEN [err |-> "nil", newState |-> newState, fin |-> NoFin, hasPost |-> FALSE,
          post |-> newSegment(0, 0)]
    ELSE LET tailSeg == getTailInfo(newState)
             removed == IF HasTailInfo(newState)
                        THEN [newState EXCEPT !.segments = MapDelete(@, tailSeg.BaseIndex),
                                              !.tail = NoSeg]
                        ELSE newState
             fin == IF HasTailInfo(newState)
                    THEN [toClose |-> {tailSeg.r}, toDelete |-> {tailSeg.ID}]
                    ELSE NoFin
             c == createNextSegment([removed EXCEPT !.nextBaseIndex = newBaseIndex])
         IN [err |-> "nil", newState |-> c.newState, fin |-> fin,
             hasPost |-> TRUE, post |-> c.post]

\* WAL.resetEmptyFirstSegmentBaseIndex
resetEmptyFirstSegmentBaseIndex(w, newBaseIndex) ==
    mutateStateLocked(w, resetTxn(w, clone(w.s), newBaseIndex))

\* A head-truncation loop that stops at the first sealed segment whatever its
\* MaxIndex, so never removes a sealed segment that lies below newMin.
headLoop_KeepsSealed(w, newMin, it, acc) ==
    IF it = <<>> THEN acc
    ELSE LET seg == Head(it)
         IN IF seg.SealTime # 0 \/ lastIndex(w, acc.newState) >= newMin
            THEN [acc EXCEPT !.hasHead = TRUE, !.head = seg]
            ELSE [acc EXCEPT !.toDelete = @ \cup {seg.ID},
                             !.toClose = @ \cup {seg.r},
                             !.newState.segments = MapDelete(@, seg.BaseIndex)]

\* The loop of WAL.truncateHeadLocked over the segments in ascending order:
\* removes the segments that lie entirely below newMin and stops at the new
\* head.  it is the rest of the iteration, acc the loop's variables.
RECURSIVE headLoop(_, _, _, _)
headLoop(w, newMin, it, acc) ==
    IF it = <<>> THEN acc
    ELSE LET seg == Head(it)
             isHead == IF seg.SealTime = 0
                       THEN lastIndex(w, acc.newState) >= newMin
                       ELSE seg.MaxIndex >= newMin
         IN IF isHead THEN [acc EXCEPT !.hasHead = TRUE, !.head = seg]
            ELSE headLoop(w, newMin, Tail(it),
                          [acc EXCEPT !.toDelete = @ \cup {seg.ID},
                                      !.toClose = @ \cup {seg.r},
                                      !.newState.segments = MapDelete(@, seg.BaseIndex)])

\* A head truncation that removes the segments below newMin but leaves the
\* MinIndex of the new head as it was.
truncateHeadTxn_KeepsMinIndex(w, newState, newMin) ==
    LET oldLastIndex == lastIndex(w, newState)
        l == headLoop(w, newMin, newState.segments,
                      [newState |-> newState, toDelete |-> {}, toClose |-> {},
                       hasHead |-> FALSE, head |-> newSegment(0, 0)])
        fin == [toClose |-> l.toClose, toDelete |-> l.toDelete]
    IN IF l.hasHead
       THEN [err |-> "nil", newState |-> l.newState,
             fin |-> fin, hasPost |-> FALSE, post |-> newSegment(0, 0)]
       ELSE LET c == createNextSegment([l.newState EXCEPT
                                           !.nextBaseIndex = oldLastIndex + 1])
            IN [err |-> "nil", newState |-> c.newState, fin |-> fin,
                hasPost |-> TRUE, post |-> c.post]

\* The transaction of WAL.truncateHeadLocked.
truncateHeadTxn(w, newState, newMin) ==
    LET oldLastIndex == lastIndex(w, newState)
        l == headLoop(w, newMin, newState.segments,
                      [newState |-> newState, toDelete |-> {}, toClose |-> {},
                       hasHead |-> FALSE, head |-> newSegment(0, 0)])
        fin == [toClose |-> l.toClose, toDelete |-> l.toDelete]
    IN IF l.hasHead
       THEN [err |-> "nil",
             newState |-> [l.newState EXCEPT
                              !.segments = MapSet(@, [l.head EXCEPT !.MinIndex = newMin])],
             fin |-> fin, hasPost |-> FALSE, post |-> newSegment(0, 0)]
       ELSE LET c == createNextSegment([l.newState EXCEPT
                                           !.nextBaseIndex = oldLastIndex + 1])
            IN [err |-> "nil", newState |-> c.newState, fin |-> fin,
                hasPost |-> TRUE, post |-> c.post]

\* WAL.truncateHeadLocked
truncateHeadLocked(w, newMin) ==
    mutateStateLocked(w, truncateHeadTxn(w, clone(w.s), newMin))

\* The loop of WAL.truncateTailLocked over the segments in descending order:
\* removes the segments whose BaseIndex is above newMax.
RECURSIVE tailLoop(_, _, _)
tailLoop(newMax, it, acc) ==
    IF it = <<>> THEN acc
    ELSE LET seg == Last(it)
         IN IF seg.BaseIndex <= newMax THEN acc
            ELSE tailLoop(newMax, SubSeq(it, 1, Len(it) - 1),
                          [acc EXCEPT !.toDelete = @ \cup {seg.ID},
                                      !.toClose = @ \cup {seg.r},
                                      !.newState.segments = MapDelete(@, seg.BaseIndex)])

\* The transaction of WAL.truncateTailLocked.
truncateTailTxn(w, newState, newMax) ==
    LET l == tailLoop(newMax, newState.segments,
                      [newState |-> newState, toDelete |-> {}, toClose |-> {}])
        resealed == IF HasTailInfo(l.newState)
                    THEN [l.newState EXCEPT
                             !.segments = MapSet(@, [getTailInfo(l.newState) EXCEPT
                                                        !.SealTime = 1,
                                                        !.MaxIndex = newMax])]
                    ELSE l.newState
        c == createNextSegment(resealed)
    IN [err |-> "nil", newState |-> c.newState,
        fin |-> [toClose |-> l.toClose, toDelete |-> l.toDelete],
        hasPost |-> TRUE, post |-> c.post]

\* WAL.truncateTailLocked
truncateTailLocked(w, newMax) ==
    mutateStateLocked(w, truncateTailTxn(w, clone(w.s), newMax))

\* ------------------------------------------------------ public reads
\* A closed check that never reports the WAL closed.
checkClosed_Never == "nil"

\* WAL.checkClosed
checkClosed == IF closed # 0 THEN "ErrClosed" ELSE "nil"

\* WAL.FirstIndex
FirstIndex ==
    IF checkClosed # "nil" THEN [err |-> checkClosed, index |-> 0]
    ELSE [err |-> "nil", index |-> firstIndex(World, s)]

\* WAL.LastIndex
LastIndex ==
    IF checkClosed # "nil" THEN [err |-> checkClosed, index |-> 0]
    ELSE [err |-> "nil", index |-> lastIndex(World, s)]

\* WAL.GetLog
GetLog(index) ==
    IF checkClosed # "nil" THEN [err |-> checkClosed, Data |-> 0]
    ELSE getLog(World, s, index)

\* ------------------------------------------------------------- inputs
LogEntries == [Index : Indexes, Data : Data]

Batches == UNION {[1 .. n -> LogEntries] : n \in 0 .. MaxBatch}

\* --------------------------------------------------------------- Open
\* Open on an empty directory: no persisted segment, no segment file.  Open
\* allocates segment 0 with BaseIndex 1, commits it, creates its file and
\* publishes the state; then it starts the rotation worker.
OpenEmpty ==
    LET si == newSegment(0, 1)
        newState == [segments |-> <<si>>, tail |-> NoSeg,
                     nextSegmentID |-> 1, nextBaseIndex |-> 0]
        w0 == [s |-> newState,
               metaState |-> [NextSegmentID |-> 0, Segments |-> <<>>],
               testSegments |-> <<>>, tsSegments |-> {}, tsDeleted |-> {},
               createErr |-> FALSE, commitErr |-> FALSE]
        c == Create(CommitState(w0, Persistent(newState)), SegmentInfo(si))
    IN [c.w EXCEPT !.s = [newState EXCEPT
                             !.tail = si.ID,
                             !.segments = MapSet(@, [si EXCEPT !.r = si.ID])]]

Init ==
    /\ closed = 0
    /\ s = OpenEmpty.s
    /\ metaState = OpenEmpty.metaState
    /\ testSegments = OpenEmpty.testSegments
    /\ tsSegments = OpenEmpty.tsSegments
    /\ tsDeleted = OpenEmpty.tsDeleted
    /\ createErr = OpenEmpty.createErr
    /\ commitErr = OpenEmpty.commitErr
    /\ triggerRotate = [buf |-> <<>>, closed |-> FALSE]
    /\ awaitRotate = 0
    /\ rotateRunning = TRUE
    /\ pending = [op |-> "none", index |-> 0, encoded |-> <<>>]
    /\ nPending = 0
    /\ snap = [first |-> 0, last |-> 0, logs |-> [k \in Indexes |-> 0]]
    /\ ret = [op |-> "Open", err |-> "nil"]
    /\ hist = [k \in Indexes |-> 0]
    /\ gen = 0
    /\ objs = [g \in 0 .. MaxGen |->
                  [refCount |-> 0, hasFin |-> FALSE, finalizer |-> NoFin, runs |-> 0]]
    /\ rd = [r \in 1 .. MaxReaders |-> [pc |-> "idle"]]
    /\ sl = [c \in 1 .. MaxCallers |-> [pc |-> "idle"]]
    /\ chs = [made |-> 0, closed |-> {}]
    /\ writeMu = 0
    /\ rot = [pc |-> "recv", indexStart |-> 0]

\* Installs the world a handler leaves behind.
Install(w) ==
    /\ s' = w.s
    /\ metaState' = w.metaState
    /\ testSegments' = w.testSegments
    /\ tsSegments' = w.tsSegments
    /\ tsDeleted' = w.tsDeleted

\* ---------------------------------------------------------- StoreLogs
\* The monotonicity loop of StoreLogs.
RECURSIVE monotonic(_, _)
monotonic(lastIdx, encoded) ==
    \/ encoded = <<>>
    \/ /\ ~(lastIdx > 0 /\ Head(encoded).Index # lastIdx + 1)
       /\ monotonic(Head(encoded).Index, Tail(encoded))

\* The body of StoreLogs under the writer lock, from acquireState to its
\* return statement, the deferred releases not yet run: [err, w, sealed, fin,
\* replaced, appendOn], with the finalizer attached to the state a re-basing
\* replaced; appendOn tells whether s.tail.Append was called and whether the
\* tail it was called on reported sealed.
\* On a state without segments getTailInfo returns nil and ti.BaseIndex is a
\* nil pointer dereference; on a state without a tail writer the call of
\* s.tail is one: the goroutine panics.
storeLogsUnreleased(w, encoded) ==
    LET lastIdx == lastIndex(w, w.s)
        ti == getTailInfo(w.s)
        rebase == lastIdx = 0 /\ encoded[1].Index # ti.BaseIndex
        reset == IF rebase
                 THEN resetEmptyFirstSegmentBaseIndex(w, encoded[1].Index)
                 ELSE [err |-> "nil", w |-> w, fin |-> NoFin]
        w1 == reset.w
        app == segAppend(w1.testSegments[w1.s.tail], encoded)
        w2 == [w1 EXCEPT !.testSegments[w1.s.tail] = app.seg]
        replaced == rebase /\ reset.err = "nil"
        tailWas == IF segSealed(w1.testSegments[w1.s.tail]) THEN "sealed" ELSE "unsealed"
    IN IF ~HasTailInfo(w.s) \/ w.s.tail = NoSeg
       THEN [err |-> "panic: nil pointer dereference", w |-> w, sealed |-> FALSE,
             fin |-> NoFin, replaced |-> FALSE, appendOn |-> "none"]
       ELSE IF reset.err # "nil"
       THEN [err |-> reset.err, w |-> w1, sealed |-> FALSE, fin |-> NoFin,
             replaced |-> FALSE, appendOn |-> "none"]
       ELSE IF ~monotonic(lastIdx, encoded)
       THEN [err |-> "non-monotonic log entries", w |-> w1, sealed |-> FALSE,
             fin |-> reset.fin, replaced |-> replaced, appendOn |-> "none"]
       ELSE IF app.err # "nil"
       THEN [err |-> app.err, w |-> w1, sealed |-> FALSE, fin |-> reset.fin,
             replaced |-> replaced, appendOn |-> tailWas]
       ELSE [err |-> "nil", w |-> w2, sealed |-> segSealed(app.seg),
             fin |-> reset.fin, replaced |-> replaced, appendOn |-> tailWas]

\* The body of StoreLogs under the writer lock when no reader holds the state
\* it replaced: [err, w, sealed], the finalizer run by the deferred release.
storeLogsLocked(w, encoded) ==
    LET released(r) == [err |-> r.err, w |-> runFinalizer(r.w, r.fin), sealed |-> r.sealed]
    IN released(storeLogsUnreleased(w, encoded))

\* The caller's record after a successful StoreLogs(encoded).
Stored(h, encoded) ==
    [k \in Indexes |->
        IF \E i \in 1 .. Len(encoded) : encoded[i].Index = k
        THEN encoded[CHOOSE i \in 1 .. Len(encoded) : encoded[i].Index = k].Data
        ELSE h[k]]

\* The body of WAL.StoreLogs after its closed check and its length check.  A
\* call that finds a rotation in flight waits for it, so it runs only once
\* awaitRotate is nil again.  A StoreLogs that sealed the tail ends with
\* triggerRotateLocked: unless the WAL is closed it makes awaitRotate and
\* sends on the 1-buffered triggerRotate.
StoreLogsBody(encoded) ==
    /\ awaitRotate = 0
    /\ LET r == storeLogsLocked(World, encoded)
       IN /\ r.w.s.nextSegmentID <= MaxSegID
          /\ Install(r.w)
          /\ ret' = [op |-> "StoreLogs", err |-> r.err]
          /\ hist' = IF r.err = "nil" THEN Stored(hist, encoded) ELSE hist
          /\ IF r.sealed /\ closed = 0
             THEN /\ Len(triggerRotate.buf) = 0
                  /\ awaitRotate' = 1
                  /\ triggerRotate' = [triggerRotate EXCEPT !.buf = <<TestIndexStart>>]
             ELSE UNCHANGED <<triggerRotate, awaitRotate>>
    /\ UNCHANGED <<closed, rotateRunning>>

\* WAL.StoreLogs
StoreLogs(encoded) ==
    /\ IF checkClosed # "nil"
       THEN /\ ret' = [op |-> "StoreLogs", err |-> checkClosed]
            /\ UNCHANGED <<closed, s, metaState, testSegments, tsSegments, tsDeleted,
                           triggerRotate, awaitRotate, rotateRunning, hist>>
       ELSE IF Len(encoded) < 1
       THEN /\ ret' = [op |-> "StoreLogs", err |-> "nil"]
            /\ UNCHANGED <<closed, s, metaState, testSegments, tsSegments, tsDeleted,
                           triggerRotate, awaitRotate, rotateRunning, hist>>
       ELSE StoreLogsBody(encoded)
    /\ UNCHANGED callers

\* ------------------------------------------------------ rotation worker
\* One iteration of WAL.runRotate: receive a trigger (or the zero value of
\* the closed channel), take the writer lock, and either return because the
\* WAL is closed or rotate and close awaitRotate.
runRotate ==
    /\ rotateRunning
    /\ Len(triggerRotate.buf) > 0 \/ triggerRotate.closed
    /\ LET indexStart == IF Len(triggerRotate.buf) > 0 THEN Head(triggerRotate.buf) ELSE 0
       IN /\ triggerRotate' = [triggerRotate EXCEPT !.buf = <<>>]
          /\ IF closed = 1
             THEN /\ rotateRunning' = FALSE
                  /\ ret' = [op |-> "runRotate", err |-> "ErrClosed"]
                  /\ UNCHANGED <<closed, s, metaState, testSegments, tsSegments,
                                 tsDeleted, awaitRotate, hist>>
             ELSE LET r == rotateSegmentLocked(World, indexStart)
                  IN /\ r.w.s.nextSegmentID <= MaxSegID
                     /\ awaitRotate = 1
                     /\ Install(r.w)
                     /\ awaitRotate' = 0
                     /\ ret' = [op |-> "runRotate", err |-> r.err]
                     /\ UNCHANGED <<closed, rotateRunning, hist>>
    /\ UNCHANGED callers

\* -------------------------------------------------------- truncations
\* A TruncateFront without the early return for an index below FirstIndex.
truncateFrontLocked_NoShortcut(w, index) ==
    LET r == truncateHeadLocked(w, index)
    IN [err |-> r.err, w |-> runFinalizer(r.w, r.fin)]

\* The body of WAL.TruncateFront under the writer lock, up to its return
\* statement, the deferred release not yet run: [err, w, fin, replaced].
truncateFrontUnreleased(w, index) ==
    IF index < firstIndex(w, w.s)
    THEN [err |-> "nil", w |-> w, fin |-> NoFin, replaced |-> FALSE]
    ELSE LET r == truncateHeadLocked(w, index)
         IN [err |-> r.err, w |-> r.w, fin |-> r.fin, replaced |-> r.err = "nil"]

\* The body of WAL.TruncateFront under the writer lock when no reader holds
\* the state it replaced: [err, w], the finalizer run by the deferred release.
truncateFrontLocked(w, index) ==
    LET released(r) == [err |-> r.err, w |-> runFinalizer(r.w, r.fin)]
    IN released(truncateFrontUnreleased(w, index))

\* WAL.TruncateFront after its closed check.
TruncateFrontBody(index) ==
    LET r == truncateFrontLocked(World, index)
    IN /\ r.w.s.nextSegmentID <= MaxSegID
       /\ Install(r.w)
       /\ ret' = [op |-> "TruncateFront", err |-> r.err]
       /\ hist' = IF r.err = "nil"
                  THEN [k \in Indexes |-> IF k < index THEN 0 ELSE hist[k]]
                  ELSE hist
       /\ UNCHANGED <<closed, triggerRotate, awaitRotate, rotateRunning>>

\* WAL.TruncateFront
TruncateFront(index) ==
    /\ IF checkClosed # "nil"
       THEN /\ ret' = [op |-> "TruncateFront", err |-> checkClosed]
            /\ UNCHANGED <<closed, s, metaState, testSegments, tsSegments, tsDeleted,
                           triggerRotate, awaitRotate, rotateRunning, hist>>
       ELSE TruncateFrontBody(index)
    /\ UNCHANGED callers

\* A TruncateBack without the range check against FirstIndex.
truncateBackLocked_NoRangeCheck(w, index) ==
    IF index > lastIndex(w, w.s) THEN [err |-> "nil", w |-> w]
    ELSE LET r == truncateTailLocked(w, index)
         IN [err |-> r.err, w |-> runFinalizer(r.w, r.fin)]

\* The body of WAL.TruncateBack under the writer lock, up to its return
\* statement, the deferred release not yet run: [err, w, fin, replaced].
truncateBackUnreleased(w, index) ==
    IF index > lastIndex(w, w.s)
    THEN [err |-> "nil", w |-> w, fin |-> NoFin, replaced |-> FALSE]
    ELSE IF index < firstIndex(w, w.s)
    THEN [err |-> "ErrOutOfRange", w |-> w, fin |-> NoFin, replaced |-> FALSE]
    ELSE LET r == truncateTailLocked(w, index)
         IN [err |-> r.err, w |-> r.w, fin |-> r.fin, replaced |-> r.err = "nil"]

\* The body of WAL.TruncateBack under the writer lock when no reader holds
\* the state it replaced: [err, w], the finalizer run by the deferred release.
truncateBackLocked(w, index) ==
    LET released(r) == [err |-> r.err, w |-> runFinalizer(r.w, r.fin)]
    IN released(truncateBackUnreleased(w, index))

\* WAL.TruncateBack after its closed check, while it hands out no segment
\* ID above maxID.
TruncateBackWithin(index, maxID) ==
    LET r == truncateBackLocked(World, index)
    IN /\ r.w.s.nextSegmentID <= maxID
       /\ Install(r.w)
       /\ ret' = [op |-> "TruncateBack", err |-> r.err]
       /\ hist' = IF r.err = "nil"
                  THEN [k \in Indexes |-> IF k > index THEN 0 ELSE hist[k]]
                  ELSE hist
       /\ UNCHANGED <<closed, triggerRotate, awaitRotate, rotateRunning>>

\* WAL.TruncateBack after its closed check.
TruncateBackBody(index) == TruncateBackWithin(index, MaxSegID)

\* WAL.TruncateBack
TruncateBack(index) ==
    /\ IF checkClosed # "nil"
       THEN /\ ret' = [op |-> "TruncateBack", err |-> checkClosed]
            /\ UNCHANGED <<closed, s, metaState, testSegments, tsSegments, tsDeleted,
                           triggerRotate, awaitRotate, rotateRunning, hist>>
       ELSE TruncateBackBody(index)
    /\ UNCHANGED callers

\* -------------------------------------------------------------- Close
\* The empty state Close publishes.
emptyState == [segments |-> <<>>, tail |-> NoSeg, nextSegmentID |-> 0, nextBaseIndex |-> 0]

\* What the reads return: FirstIndex, LastIndex and the payload GetLog
\* returns for every index (0 = no entry).
View(w) ==
    [first |-> firstIndex(w, w.s), last |-> lastIndex(w, w.s),
     logs |-> [k \in Indexes |-> IF getLog(w, w.s, k).err = "nil"
                                 THEN getLog(w, w.s, k).Data ELSE 0]]

\* WAL.Close
Close ==
    /\ IF closed # 0
       THEN /\ ret' = [op |-> "Close", err |-> "nil"]
            /\ UNCHANGED <<closed, s, metaState, testSegments, tsSegments, tsDeleted,
                           triggerRotate, awaitRotate, rotateRunning, hist, snap>>
       ELSE /\ closed' = 1
            /\ awaitRotate' = 0
            /\ triggerRotate' = [triggerRotate EXCEPT !.closed = TRUE]
            /\ Install(closeSegments([World EXCEPT !.s = emptyState],
                                     {s.segments[i].r : i \in 1 .. Len(s.segments)}))
            /\ ret' = [op |-> "Close", err |-> "nil"]
            /\ snap' = View(World)
            /\ UNCHANGED <<rotateRunning, hist>>
    /\ UNCHANGED <<pending, nPending, createErr, commitErr, procs>>

\* ------------------------------------------ calls in flight across Close
\* A call that has passed its closed check and has not yet taken the writer
\* lock (a write) or loaded the state (a read).
NoCall == [op |-> "none", index |-> 0, encoded |-> <<>>]

Calls ==
    {[op |-> o, index |-> k, encoded |-> <<>>] :
        o \in {"TruncateFront", "TruncateBack", "GetLog"}, k \in Indexes}
    \cup {[op |-> o, index |-> 0, encoded |-> <<>>] : o \in {"FirstIndex", "LastIndex"}}
    \cup {[op |-> "StoreLogs", index |-> 0, encoded |-> <<[Index |-> k, Data |-> 1]>>] :
             k \in Indexes}

\* A call passes checkClosed on the open WAL and is in flight from then on.
Begin(call) ==
    /\ checkClosed = "nil"
    /\ pending = NoCall
    /\ nPending < MaxInFlight
    /\ pending' = call
    /\ nPending' = nPending + 1
    /\ UNCHANGED <<snap, createErr, commitErr, procs>>
    /\ UNCHANGED <<closed, s, metaState, testSegments, tsSegments, tsDeleted,
                   triggerRotate, awaitRotate, rotateRunning, ret, hist>>

\* What a read in flight returns once it has loaded the state.
ReadBody(call) ==
    /\ ret' = [op |-> call.op,
               err |-> IF call.op = "GetLog" THEN getLog(World, s, call.index).err
                       ELSE "nil"]
    /\ UNCHANGED <<closed, s, metaState, testSegments, tsSegments, tsDeleted,
                   triggerRotate, awaitRotate, rotateRunning, hist>>

\* The call in flight takes the writer lock, or loads the state, and runs to
\* its return.  The state Close publishes is the zero state: a nil segment
\* map and a nil tail.  What the methods of the state do with a nil map is
\* not fixed by wal.go: they dereference it and the goroutine panics, or they
\* treat it as a map without segments.
Finish ==
    /\ pending # NoCall
    /\ pending' = NoCall
    /\ UNCHANGED <<nPending, snap, createErr, commitErr, procs>>
    /\ \E nilPanics \in BOOLEAN :
          IF s = emptyState /\ nilPanics
          THEN /\ ret' = [op |-> pending.op, err |-> "panic: nil pointer dereference"]
               /\ UNCHANGED <<closed, s, metaState, testSegments, tsSegments, tsDeleted,
                              triggerRotate, awaitRotate, rotateRunning, hist>>
          ELSE CASE pending.op = "StoreLogs" -> StoreLogsBody(pending.encoded)
                 [] pending.op = "TruncateFront" -> TruncateFrontBody(pending.index)
                 [] pending.op = "TruncateBack" -> TruncateBackBody(pending.index)
                 [] OTHER -> ReadBody(pending)

\* ------------------------------------------------- restart and Open
\* A segmentState for a persisted SegmentInfo and its reader.
segmentState(si, r) ==
    [ID |-> si.ID, BaseIndex |-> si.BaseIndex, MinIndex |-> si.MinIndex,
     MaxIndex |-> si.MaxIndex, IndexStart |-> si.IndexStart,
     SealTime |-> si.SealTime, r |-> r]

\* What a new process finds: the committed metadata and the segment files.
\* The handles the SegmentFiler hands to it are open, whichever handles the
\* previous process had closed.
restart(w) ==
    [w EXCEPT !.s = emptyState,
              !.testSegments = [id \in DOMAIN @ |->
                                   IF id \in w.tsSegments
                                   THEN [@[id] EXCEPT !.closed = FALSE] ELSE @[id]]]

\* testStorage.RecoverTail, and the Create Open falls back to when the file
\* of the tail does not exist.
RecoverTail(w, si) ==
    IF si.ID \in w.tsSegments THEN [err |-> "nil", w |-> w] ELSE Create(w, si)

\* An Open loop that recovers the first unsealed segment as the tail wherever
\* it stands in the persisted list.
RECURSIVE openLoop_TailAnywhere(_, _, _)
openLoop_TailAnywhere(Segments, i, acc) ==
    IF i > Len(Segments) THEN acc
    ELSE LET si == Segments[i]
             kept == [acc EXCEPT !.toDelete = @ \ {si.ID}]
         IN IF si.SealTime = 0
            THEN LET sw == RecoverTail(kept.w, si)
                 IN IF sw.err # "nil" THEN [kept EXCEPT !.err = sw.err]
                    ELSE [kept EXCEPT
                             !.w = sw.w,
                             !.newState.tail = si.ID,
                             !.newState.segments = MapSet(@, segmentState(si, si.ID)),
                             !.recoveredTail = TRUE]
            ELSE IF si.ID \notin kept.w.tsSegments
            THEN [kept EXCEPT !.err = "segment does not exist"]
            ELSE openLoop_TailAnywhere(Segments, i + 1,
                          [kept EXCEPT !.newState.segments =
                                           MapSet(@, segmentState(si, si.ID))])

\* The loop of Open over the persisted segments.  acc is [err, w, newState,
\* toDelete, recoveredTail].
RECURSIVE openLoop(_, _, _)
openLoop(Segments, i, acc) ==
    IF i > Len(Segments) THEN acc
    ELSE LET si == Segments[i]
             kept == [acc EXCEPT !.toDelete = @ \ {si.ID}]
         IN IF si.SealTime = 0
            THEN IF i < Len(Segments)
                 THEN [kept EXCEPT !.err = "unsealed segment is not at tail"]
                 ELSE LET sw == RecoverTail(kept.w, si)
                      IN IF sw.err # "nil" THEN [kept EXCEPT !.err = sw.err]
                         ELSE [kept EXCEPT
                                  !.w = sw.w,
                                  !.newState.tail = si.ID,
                                  !.newState.segments = MapSet(@, segmentState(si, si.ID)),
                                  !.recoveredTail = TRUE]
            ELSE IF si.ID \notin kept.w.tsSegments
            THEN [kept EXCEPT !.err = "segment does not exist"]
            ELSE openLoop(Segments, i + 1,
                          [kept EXCEPT !.newState.segments =
                                           MapSet(@, segmentState(si, si.ID))])

\* An Open that prunes the unused segment files before it has recovered and
\* published the state.
Open_PrunesFirst(w) ==
    LET listed == deleteSegments(w, w.tsSegments \
                      {w.metaState.Segments[i].ID : i \in 1 .. Len(w.metaState.Segments)})
        l == openLoop(w.metaState.Segments, 1,
                      [err |-> "nil", w |-> listed,
                       newState |-> [segments |-> <<>>, tail |-> NoSeg,
                                     nextSegmentID |-> w.metaState.NextSegmentID,
                                     nextBaseIndex |-> 0],
                       toDelete |-> {}, recoveredTail |-> FALSE])
    IN IF l.err # "nil" THEN [err |-> l.err, w |-> l.w]
       ELSE [err |-> "nil", w |-> [l.w EXCEPT !.s = l.newState]]

\* Open, on the metadata and the files of w: [err, w].  On an error no WAL
\* is returned and w.s stays the empty state.
Open(w) ==
    LET persisted == w.metaState
        l == openLoop(persisted.Segments, 1,
                      [err |-> "nil", w |-> w,
                       newState |-> [segments |-> <<>>, tail |-> NoSeg,
                                     nextSegmentID |-> persisted.NextSegmentID,
                                     nextBaseIndex |-> 0],
                       toDelete |-> w.tsSegments, recoveredTail |-> FALSE])
    IN IF l.err # "nil" THEN [err |-> l.err, w |-> l.w]
       ELSE IF l.recoveredTail
       THEN [err |-> "nil", w |-> deleteSegments([l.w EXCEPT !.s = l.newState], l.toDelete)]
       ELSE LET si == newSegment(l.newState.nextSegmentID, 1)
                newState == [l.newState EXCEPT !.nextSegmentID = @ + 1,
                                               !.segments = MapSet(@, si)]
                c == Create(CommitState(l.w, Persistent(newState)), SegmentInfo(si))
            IN IF c.err # "nil" THEN [err |-> c.err, w |-> c.w]
               ELSE [err |-> "nil",
                     w |-> deleteSegments(
                              [c.w EXCEPT !.s =
                                  [newState EXCEPT
                                      !.tail = si.ID,
                                      !.segments = MapSet(@, [si EXCEPT !.r = si.ID])]],
                              l.toDelete)]

\* A new process calls Open on the storage w; op names the restart in ret.
\* When Open fails there is no WAL: every later call is refused.
Started(op, w) ==
    LET r == Open(restart(w))
    IN /\ r.w.s.nextSegmentID <= MaxSegID
       /\ Install(r.w)
       /\ closed' = IF r.err = "nil" THEN 0 ELSE 2
       /\ triggerRotate' = [buf |-> <<>>, closed |-> r.err # "nil"]
       /\ awaitRotate' = 0
       /\ rotateRunning' = (r.err = "nil")
       /\ ret' = [op |-> op, err |-> r.err]

\* Open on the metadata and the files of a WAL that was closed and whose
\* rotation worker has returned.
Reopen ==
    /\ closed = 1
    /\ ~rotateRunning
    /\ pending = NoCall
    /\ Started("Open", World)
    /\ snap' = [first |-> 0, last |-> 0, logs |-> [k \in Indexes |-> 0]]
    /\ UNCHANGED <<hist, pending, nPending, createErr, commitErr, procs>>

\* The transactions of the current state whose commit is followed by the
\* creation of a segment file: the rotation the worker is about to run, a
\* TruncateBack, a TruncateFront that removes every segment, and the
\* re-basing of the empty log by a StoreLogs.  Each is [tx, hist]: the
\* transaction and the caller's record once it is committed.
CreatingTxns ==
    {[tx |-> rotateTxn(World, clone(s), Head(triggerRotate.buf)), hist |-> hist] :
        x \in {1} \cap {Len(triggerRotate.buf)}}
    \cup {[tx |-> truncateTailTxn(World, clone(s), index),
           hist |-> [k \in Indexes |-> IF k > index THEN 0 ELSE hist[k]]] :
             index \in {k \in Indexes : firstIndex(World, s) <= k /\ k <= lastIndex(World, s)}}
    \cup {[tx |-> truncateHeadTxn(World, clone(s), index),
           hist |-> [k \in Indexes |-> IF k < index THEN 0 ELSE hist[k]]] :
             index \in {k \in Indexes : k >= firstIndex(World, s)}}
    \cup {[tx |-> resetTxn(World, clone(s), index), hist |-> hist] :
             index \in {k \in Indexes : /\ awaitRotate = 0
                                        /\ lastIndex(World, s) = 0
                                        /\ HasTailInfo(s)
                                        /\ k # getTailInfo(s).BaseIndex}}

\* The storage a process leaves behind that dies in mutateStateLocked after
\* CommitState and before the postCommit that creates the new segment file;
\* no finalizer has run.
crashAfterCommit(w, tx) == CommitState(w, Persistent(tx.newState))

\* The process dies between the commit of a transaction and the creation of
\* its segment file, and a new process calls Open.
CrashReopen ==
    /\ closed = 0
    /\ pending = NoCall
    /\ \E c \in CreatingTxns :
          /\ c.tx.err = "nil"
          /\ c.tx.hasPost
          /\ c.tx.newState.nextSegmentID <= MaxSegID
          /\ Started("crash, Open", crashAfterCommit(World, c.tx))
          /\ hist' = c.hist
    /\ UNCHANGED callers

\* ---------------------------------------------------- fault injection
\* The storage is set to fail Create from now on, or to stop failing it.
SetCreateErr(err) ==
    /\ closed = 0
    /\ createErr # err
    /\ createErr' = err
    /\ UNCHANGED <<closed, s, metaState, testSegments, tsSegments, tsDeleted,
                   triggerRotate, awaitRotate, rotateRunning, pending, nPending,
                   snap, ret, hist, procs, commitErr>>

\* The storage is set to fail CommitState from now on, or to stop failing it.
SetCommitErr(err) ==
    /\ closed = 0
    /\ commitErr # err
    /\ commitErr' = err
    /\ UNCHANGED <<closed, s, metaState, testSegments, tsSegments, tsDeleted,
                   triggerRotate, awaitRotate, rotateRunning, pending, nPending,
                   snap, ret, hist, procs, createErr>>

\* ------------------------------------------- readers and references
\* A release that runs the finalizer at every drop to zero and leaves it in
\* its slot.
release_KeepsSlot(w, o) ==
    IF o.refCount - 1 = 0 /\ o.hasFin
    THEN [w |-> runFinalizer(w, o.finalizer),
          o |-> [o EXCEPT !.refCount = 0, !.runs = @ + 1]]
    ELSE [w |-> w, o |-> [o EXCEPT !.refCount = @ - 1]]

\* state.release on the state object o: the count is decremented, and the
\* release that takes it to zero empties the finalizer slot (hasFin) and runs
\* what it held; finalizer keeps the record of what the slot held.
\* [w, o]: the storage and the object afterwards.
release(w, o) ==
    IF o.refCount - 1 = 0 /\ o.hasFin
    THEN [w |-> runFinalizer(w, o.finalizer),
          o |-> [o EXCEPT !.refCount = 0, !.hasFin = FALSE, !.runs = @ + 1]]
    ELSE [w |-> w, o |-> [o EXCEPT !.refCount = @ - 1]]

\* The return of a handler that ran under the writer lock with result
\* r = [err, w, fin, replaced]: a handler that replaced the state has
\* published a new state object and stored r.fin in the finalizer slot of
\* the old one, on which it then drops its own reference.
Return(r) ==
    IF ~r.replaced THEN Install(r.w) /\ UNCHANGED <<gen, objs>>
    ELSE LET rel == release(r.w, [objs[gen] EXCEPT !.refCount = @ + 1,
                                                   !.hasFin = TRUE,
                                                   !.finalizer = r.fin])
         IN /\ gen < MaxGen
            /\ gen' = gen + 1
            /\ objs' = [objs EXCEPT ![gen] = rel.o]
            /\ Install(rel.w)

\* WAL.StoreLogs of one entry while readers run.
StoreLogsShared(encoded) ==
    /\ checkClosed = "nil"
    /\ awaitRotate = 0
    /\ LET r == storeLogsUnreleased(World, encoded)
       IN /\ r.w.s.nextSegmentID <= MaxSegID
          /\ Return(r)
          /\ ret' = [op |-> "StoreLogs", err |-> r.err]
          /\ hist' = IF r.err = "nil" THEN Stored(hist, encoded) ELSE hist
          /\ IF r.sealed /\ closed = 0
             THEN /\ Len(triggerRotate.buf) = 0
                  /\ awaitRotate' = 1
                  /\ triggerRotate' = [triggerRotate EXCEPT !.buf = <<TestIndexStart>>]
             ELSE UNCHANGED <<triggerRotate, awaitRotate>>
    /\ UNCHANGED <<closed, rotateRunning, pending, nPending, snap, createErr, commitErr, rd, waiters>>

\* One iteration of WAL.runRotate on the open WAL while readers run.
runRotateShared ==
    /\ rotateRunning
    /\ closed = 0
    /\ Len(triggerRotate.buf) > 0
    /\ awaitRotate = 1
    /\ LET r == rotateSegmentLocked(World, Head(triggerRotate.buf))
       IN /\ r.w.s.nextSegmentID <= MaxSegID
          /\ Return([err |-> r.err, w |-> r.w, fin |-> r.fin, replaced |-> r.err = "nil"])
          /\ ret' = [op |-> "runRotate", err |-> r.err]
    /\ triggerRotate' = [triggerRotate EXCEPT !.buf = <<>>]
    /\ awaitRotate' = 0
    /\ UNCHANGED <<closed, rotateRunning, hist, pending, nPending, snap, createErr, commitErr, rd,
                   waiters>>

\* WAL.TruncateFront while readers run.
TruncateFrontShared(index) ==
    /\ checkClosed = "nil"
    /\ LET r == truncateFrontUnreleased(World, index)
       IN /\ r.w.s.nextSegmentID <= MaxSegID
          /\ Return(r)
          /\ ret' = [op |-> "TruncateFront", err |-> r.err]
          /\ hist' = IF r.err = "nil"
                     THEN [k \in Indexes |-> IF k < index THEN 0 ELSE hist[k]]
                     ELSE hist
    /\ UNCHANGED <<closed, triggerRotate, awaitRotate, rotateRunning, pending,
                   nPending, snap, createErr, commitErr, rd, waiters>>

\* WAL.TruncateBack while readers run.
TruncateBackShared(index) ==
    /\ checkClosed = "nil"
    /\ LET r == truncateBackUnreleased(World, index)
       IN /\ r.w.s.nextSegmentID <= MaxSegID
          /\ Return(r)
          /\ ret' = [op |-> "TruncateBack", err |-> r.err]
          /\ hist' = IF r.err = "nil"
                     THEN [k \in Indexes |-> IF k > index THEN 0 ELSE hist[k]]
                     ELSE hist
    /\ UNCHANGED <<closed, triggerRotate, awaitRotate, rotateRunning, pending,
                   nPending, snap, createErr, commitErr, rd, waiters>>

\* WAL.Close on the open WAL while readers run: the zero state replaces the
\* current one, whose finalizer closes the reader of every segment.
CloseShared ==
    /\ closed = 0
    /\ closed' = 1
    /\ awaitRotate' = 0
    /\ triggerRotate' = [triggerRotate EXCEPT !.closed = TRUE]
    /\ Return([err |-> "nil", w |-> [World EXCEPT !.s = emptyState],
               fin |-> [toClose |-> {s.segments[i].r : i \in 1 .. Len(s.segments)},
                        toDelete |-> {}],
               replaced |-> TRUE])
    /\ ret' = [op |-> "Close", err |-> "nil"]
    /\ snap' = View(World)
    /\ UNCHANGED <<rotateRunning, hist, pending, nPending, createErr, commitErr, rd, waiters>>

\* A read passes checkClosed and does the first half of WAL.acquireState:
\* loadState.
loadState(r) ==
    /\ checkClosed = "nil"
    /\ rd[r].pc = "idle"
    /\ rd' = [rd EXCEPT ![r] = [pc |-> "loaded", g |-> gen, st |-> s]]
    /\ UNCHANGED <<closed, s, metaState, testSegments, tsSegments, tsDeleted,
                   createErr, commitErr, triggerRotate, awaitRotate, rotateRunning, pending,
                   nPending, snap, ret, hist, gen, objs, waiters>>

\* The second half of WAL.acquireState: s.acquire() on the state loaded.
acquire(r) ==
    /\ rd[r].pc = "loaded"
    /\ rd' = [rd EXCEPT ![r] = [pc |-> "acquired", g |-> @.g, st |-> @.st]]
    /\ objs' = [objs EXCEPT ![rd[r].g].refCount = @ + 1]
    /\ UNCHANGED <<closed, s, metaState, testSegments, tsSegments, tsDeleted,
                   createErr, commitErr, triggerRotate, awaitRotate, rotateRunning, pending,
                   nPending, snap, ret, hist, gen, waiters>>

\* The segment s.getLog(index) dispatches to on the state st: the one with
\* the greatest BaseIndex not above index that holds index (NoSeg: none).
segmentFor(st, index) ==
    LET cands == SelectSeq(st.segments, LAMBDA e : e.BaseIndex <= index)
        seg == Last(cands)
    IN IF Len(cands) = 0 THEN NoSeg
       ELSE IF seg.MinIndex > index \/ (seg.SealTime # 0 /\ index > seg.MaxIndex)
       THEN NoSeg
       ELSE seg.r

\* The read of WAL.GetLog(index) on the state the reader acquired.  The
\* reader records the segment it read from and whether that segment's
\* reader was still open and its file still there.
read(r, index) ==
    /\ rd[r].pc = "acquired"
    /\ LET res == getLog(World, rd[r].st, index)
           seg == segmentFor(rd[r].st, index)
       IN rd' = [rd EXCEPT ![r] =
                    [pc |-> "read", g |-> @.g, st |-> @.st, index |-> index,
                     err |-> res.err, Data |-> res.Data, seg |-> seg,
                     live |-> \/ seg = NoSeg
                              \/ /\ ~testSegments[seg].closed
                                 /\ seg \in tsSegments]]
    /\ UNCHANGED <<closed, s, metaState, testSegments, tsSegments, tsDeleted,
                   createErr, commitErr, triggerRotate, awaitRotate, rotateRunning, pending,
                   nPending, snap, ret, hist, gen, objs, waiters>>

\* The deferred release of the read: it returns what it read.
releaseState(r) ==
    /\ rd[r].pc = "read"
    /\ LET rel == release(World, objs[rd[r].g])
       IN /\ objs' = [objs EXCEPT ![rd[r].g] = rel.o]
          /\ Install(rel.w)
          /\ ret' = [op |-> IF rel.o.runs > objs[rd[r].g].runs
                            THEN "GetLog, finalizer" ELSE "GetLog",
                     err |-> rd[r].err]
    /\ rd' = [rd EXCEPT ![r] = [pc |-> "idle"]]
    /\ UNCHANGED <<closed, createErr, commitErr, triggerRotate, awaitRotate, rotateRunning,
                   pending, nPending, snap, hist, gen, waiters>>

\* ------------------------------- concurrent StoreLogs and the worker
\* The segment IDs handed out while concurrent callers run: one more than
\* elsewhere, for a third tail to be filled.
MaxSegIDWaiters == MaxSegID + 1

\* The worker may go on for two rotations more, so that every trigger the
\* callers sent within these bounds can be served.
MaxSegIDRotate == MaxSegIDWaiters + 2

\* The batches the concurrent callers store: consecutive indexes from 1 on.
CallerBatches ==
    {b \in Batches : /\ Len(b) > 0
                     /\ b[1].Index > 0
                     /\ \A i \in 1 .. Len(b) : b[i].Data = 1 /\ b[i].Index = b[1].Index + i - 1}

\* StoreLogs of caller c from acquireState (wal.go:381) on, the writer lock
\* held.  triggerRotateLocked makes a new awaitRotate channel and sends on
\* triggerRotate: with the buffer full the caller stays in the send, holding
\* the lock.  The result names whether Append was called, on what tail, and
\* whether a rotation was pending (awaitRotate non-nil) at that moment.
storeLogsBody(c) ==
    LET op(r) == IF r.appendOn = "none" THEN "StoreLogs"
                 ELSE IF awaitRotate # 0 /\ r.appendOn = "sealed"
                 THEN "StoreLogs, Append on sealed tail, rotation pending"
                 ELSE IF awaitRotate # 0 THEN "StoreLogs, Append, rotation pending"
                 ELSE IF r.appendOn = "sealed" THEN "StoreLogs, Append on sealed tail"
                 ELSE "StoreLogs, Append"
        returns(r) ==
            /\ r.w.s.nextSegmentID <= MaxSegIDWaiters
            /\ Install(runFinalizer(r.w, r.fin))
            /\ hist' = IF r.err = "nil" THEN Stored(hist, sl[c].encoded) ELSE hist
            /\ ret' = [op |-> op(r), err |-> r.err]
            /\ IF r.sealed /\ closed = 0
               THEN /\ awaitRotate' = chs.made + 1
                    /\ chs' = [chs EXCEPT !.made = @ + 1]
                    /\ IF Len(triggerRotate.buf) = 0
                       THEN /\ triggerRotate' =
                                  [triggerRotate EXCEPT !.buf = <<TestIndexStart>>]
                            /\ writeMu' = 0
                            /\ sl' = [sl EXCEPT ![c] = [pc |-> "idle"]]
                       ELSE /\ writeMu' = c
                            /\ sl' = [sl EXCEPT ![c] = [pc |-> "send"]]
                            /\ UNCHANGED triggerRotate
               ELSE /\ writeMu' = 0
                    /\ sl' = [sl EXCEPT ![c] = [pc |-> "idle"]]
                    /\ UNCHANGED <<triggerRotate, awaitRotate, chs>>
    IN returns(storeLogsUnreleased(World, sl[c].encoded))
    /\ UNCHANGED <<closed, rotateRunning, rot, pending, nPending, snap, createErr, commitErr,
                   gen, objs, rd>>

\* Caller c calls StoreLogs(encoded): it passes checkClosed and the length
\* check and goes for the writer lock.
callStoreLogs(c, encoded) ==
    /\ checkClosed = "nil"
    /\ sl[c].pc = "idle"
    /\ nPending < MaxCalls
    /\ nPending' = nPending + 1
    /\ sl' = [sl EXCEPT ![c] = [pc |-> "lock", encoded |-> encoded]]
    /\ UNCHANGED <<closed, s, metaState, testSegments, tsSegments, tsDeleted,
                   createErr, commitErr, triggerRotate, awaitRotate, rotateRunning, pending,
                   snap, ret, hist, gen, objs, rd, chs, writeMu, rot>>

\* Caller c takes the writer lock (wal.go:369).  With a rotation in flight
\* it releases the lock and waits on the channel it found in awaitRotate.
lock(c) ==
    /\ sl[c].pc = "lock"
    /\ writeMu = 0
    /\ IF awaitRotate # 0
       THEN /\ sl' = [sl EXCEPT ![c] = [pc |-> "wait", encoded |-> @.encoded,
                                        awaitCh |-> awaitRotate]]
            /\ UNCHANGED <<closed, s, metaState, testSegments, tsSegments, tsDeleted,
                           createErr, commitErr, triggerRotate, awaitRotate, rotateRunning,
                           pending, nPending, snap, ret, hist, gen, objs, rd, chs,
                           writeMu, rot>>
       ELSE storeLogsBody(c)

\* The channel caller c waits on has been closed: the caller takes the
\* writer lock again (wal.go:377-378) and goes on.
relock(c) ==
    /\ sl[c].pc = "wait"
    /\ sl[c].awaitCh \in chs.closed
    /\ writeMu = 0
    /\ storeLogsBody(c)

\* The send of caller c on triggerRotate goes through (wal.go:507), and the
\* call returns.
send(c) ==
    /\ sl[c].pc = "send"
    /\ Len(triggerRotate.buf) = 0
    /\ triggerRotate' = [triggerRotate EXCEPT !.buf = <<TestIndexStart>>]
    /\ writeMu' = 0
    /\ sl' = [sl EXCEPT ![c] = [pc |-> "idle"]]
    /\ UNCHANGED <<closed, s, metaState, testSegments, tsSegments, tsDeleted,
                   createErr, commitErr, awaitRotate, rotateRunning, pending, nPending, snap,
                   ret, hist, gen, objs, rd, chs, rot>>

\* The worker receives from triggerRotate (wal.go:512): a trigger, or the
\* zero value of the closed channel.
recv ==
    /\ rotateRunning
    /\ rot.pc = "recv"
    /\ Len(triggerRotate.buf) > 0 \/ triggerRotate.closed
    /\ rot' = [pc |-> "lock",
               indexStart |-> IF Len(triggerRotate.buf) > 0
                              THEN Head(triggerRotate.buf) ELSE 0]
    /\ triggerRotate' = [triggerRotate EXCEPT !.buf = <<>>]
    /\ UNCHANGED <<closed, s, metaState, testSegments, tsSegments, tsDeleted,
                   createErr, commitErr, awaitRotate, rotateRunning, pending, nPending, snap,
                   ret, hist, gen, objs, rd, sl, chs, writeMu>>

\* The worker takes the writer lock (wal.go:514) and returns because the WAL
\* is closed, or rotates, sets awaitRotate to nil, unlocks and closes the
\* channel awaitRotate held; close of a nil channel panics.
rotate ==
    /\ rotateRunning
    /\ rot.pc = "lock"
    /\ writeMu = 0
    /\ rot' = [pc |-> "recv", indexStart |-> 0]
    /\ IF closed = 1
       THEN /\ rotateRunning' = FALSE
            /\ ret' = [op |-> "runRotate", err |-> "ErrClosed"]
            /\ UNCHANGED <<s, metaState, testSegments, tsSegments, tsDeleted,
                           awaitRotate, chs>>
       ELSE LET r == rotateSegmentLocked(World, rot.indexStart)
            IN /\ r.w.s.nextSegmentID <= MaxSegIDRotate
               /\ Install(r.w)
               /\ awaitRotate' = 0
               /\ IF awaitRotate = 0
                  THEN /\ rotateRunning' = FALSE
                       /\ ret' = [op |-> "runRotate",
                                  err |-> "panic: close of nil channel"]
                       /\ UNCHANGED chs
                  ELSE /\ chs' = [chs EXCEPT !.closed = @ \cup {awaitRotate}]
                       /\ ret' = [op |-> "runRotate", err |-> r.err]
                       /\ UNCHANGED rotateRunning
    /\ UNCHANGED <<closed, createErr, commitErr, triggerRotate, pending, nPending, snap, hist,
                   gen, objs, rd, sl, writeMu>>

\* WAL.TruncateBack on the open WAL beside the concurrent callers.
truncateBack(index) ==
    /\ checkClosed = "nil"
    /\ writeMu = 0
    /\ TruncateBackWithin(index, MaxSegIDWaiters)
    /\ UNCHANGED callers

\* A Close that closes triggerRotate and replaces the state without taking
\* the writer lock.
closeLocked_NoLock ==
    /\ closed = 1
    /\ ~triggerRotate.closed
    /\ awaitRotate' = 0
    /\ triggerRotate' = [triggerRotate EXCEPT !.closed = TRUE]
    /\ Install(closeSegments([World EXCEPT !.s = emptyState],
                             {s.segments[i].r : i \in 1 .. Len(s.segments)}))
    /\ ret' = [op |-> "Close", err |-> "nil"]
    /\ snap' = View(World)
    /\ UNCHANGED <<closed, rotateRunning, hist, pending, nPending, createErr, commitErr,
                   procs>>

\* The first statement of WAL.Close on the open WAL (wal.go:836): the closed
\* flag is swapped to 1, with no lock held.
swapClosed ==
    /\ closed = 0
    /\ closed' = 1
    /\ UNCHANGED <<s, metaState, testSegments, tsSegments, tsDeleted, triggerRotate,
                   awaitRotate, rotateRunning, ret, hist, callers>>

\* The rest of WAL.Close (wal.go:842-876), from the moment it gets the writer
\* lock: awaitRotate is set to nil, triggerRotate is closed, the zero state
\* is published and the readers of the old state are closed.
closeLocked ==
    /\ closed = 1
    /\ ~triggerRotate.closed
    /\ writeMu = 0
    /\ awaitRotate' = 0
    /\ triggerRotate' = [triggerRotate EXCEPT !.closed = TRUE]
    /\ Install(closeSegments([World EXCEPT !.s = emptyState],
                             {s.segments[i].r : i \in 1 .. Len(s.segments)}))
    /\ ret' = [op |-> "Close", err |-> "nil"]
    /\ snap' = View(World)
    /\ UNCHANGED <<closed, rotateRunning, hist, pending, nPending, createErr, commitErr,
                   procs>>

\* ------------------------------------------------------ specifications
Next ==
    \/ \E encoded \in Batches : StoreLogs(encoded)
    \/ runRotate
    \/ \E index \in Indexes : TruncateFront(index)
    \/ \E index \in Indexes : TruncateBack(index)

Spec == Init /\ [][Next]_vars

\* The operations of an open WAL together with Close.
NextClose ==
    \/ Next
    \/ Close

SpecClose == Init /\ [][NextClose]_vars

\* Appends and rotations only: no truncation, no Close.
NextAppend ==
    \/ \E encoded \in Batches : StoreLogs(encoded)
    \/ runRotate

SpecAppend == Init /\ [][NextAppend]_vars

\* Appends, rotations and Close, with calls in flight across Close.
NextRace ==
    \/ \E encoded \in Batches : StoreLogs(encoded)
    \/ runRotate
    \/ Close
    \/ \E call \in Calls : Begin(call)
    \/ Finish

SpecRace == Init /\ [][NextRace]_vars

\* The batches of a caller that stamps its payloads: the stamp changes with
\* every segment the WAL starts, so an entry that wrongly survives a
\* truncation differs from the entry stored in its place.
StampedBatches ==
    {b \in Batches : \A i \in 1 .. Len(b) : b[i].Data = 1 + (s.nextSegmentID % 2)}

\* Every operation on the open WAL, Close, and restarts: after Close and
\* after a crash between a commit and the creation of the segment file.
NextReopen ==
    \/ closed = 0 /\ \E encoded \in StampedBatches : StoreLogs(encoded)
    \/ runRotate
    \/ closed = 0 /\ \E index \in Indexes : TruncateFront(index)
    \/ closed = 0 /\ \E index \in Indexes : TruncateBack(index)
    \/ Close
    \/ Reopen
    \/ CrashReopen

SpecReopen == Init /\ [][NextReopen]_vars

\* Every operation, with single stamped entries, on a storage whose Create
\* can be made to fail.
NextFault ==
    \/ \E encoded \in {b \in StampedBatches : Len(b) = 1} : StoreLogs(encoded)
    \/ runRotate
    \/ \E index \in Indexes : TruncateFront(index)
    \/ \E index \in Indexes : TruncateBack(index)
    \/ \E err \in BOOLEAN : SetCreateErr(err)

SpecFault == Init /\ [][NextFault]_vars

\* Every operation, with single stamped entries, on a storage whose
\* CommitState is made to fail from some point on.
NextCommitFault ==
    \/ \E encoded \in {b \in StampedBatches : Len(b) = 1} : StoreLogs(encoded)
    \/ runRotate
    \/ \E index \in Indexes : TruncateFront(index)
    \/ \E index \in Indexes : TruncateBack(index)
    \/ SetCommitErr(TRUE)

SpecCommitFault == Init /\ [][NextCommitFault]_vars

\* Readers in every position of acquireState, read and release beside the
\* writers: StoreLogs of one entry, the rotation worker, the truncations and
\* Close.
NextReaders ==
    \/ \E k \in Indexes : StoreLogsShared(<<[Index |-> k, Data |-> 1]>>)
    \/ runRotateShared
    \/ \E index \in Indexes : TruncateFrontShared(index)
    \/ \E index \in Indexes : TruncateBackShared(index)
    \/ CloseShared
    \/ \E r \in 1 .. MaxReaders : loadState(r)
    \/ \E r \in 1 .. MaxReaders : acquire(r)
    \/ \E r \in 1 .. MaxReaders, index \in Indexes : read(r, index)
    \/ \E r \in 1 .. MaxReaders : releaseState(r)

SpecReaders == Init /\ [][NextReaders]_vars

\* Concurrent StoreLogs callers in every position between their closed
\* check and their return, beside the rotation worker, TruncateBack and
\* Close, which run when the writer lock is free.
NextWaiters ==
    \/ \E c \in 1 .. MaxCallers, encoded \in CallerBatches : callStoreLogs(c, encoded)
    \/ \E c \in 1 .. MaxCallers : lock(c)
    \/ \E c \in 1 .. MaxCallers : relock(c)
    \/ \E c \in 1 .. MaxCallers : send(c)
    \/ recv
    \/ rotate
    \/ \E index \in Indexes : truncateBack(index)
    \/ writeMu = 0 /\ Close

SpecWaiters == Init /\ [][NextWaiters]_vars

\* Concurrent StoreLogs callers, the rotation worker and TruncateBack beside
\* a Close in its two steps: the swap of the closed flag, and the rest under
\* the writer lock.
NextCloseSteps ==
    \/ \E c \in 1 .. MaxCallers, encoded \in CallerBatches : callStoreLogs(c, encoded)
    \/ \E c \in 1 .. MaxCallers : lock(c)
    \/ \E c \in 1 .. MaxCallers : relock(c)
    \/ \E c \in 1 .. MaxCallers : send(c)
    \/ recv
    \/ rotate
    \/ \E index \in Indexes : truncateBack(index)
    \/ swapClosed
    \/ closeLocked

SpecCloseSteps == Init /\ [][NextCloseSteps]_vars

\* When the steps that take the writer lock can be taken: the guards of
\* lock, relock and rotate.
canLock(c) == sl[c].pc = "lock" /\ writeMu = 0
canRelock(c) == sl[c].pc = "wait" /\ sl[c].awaitCh \in chs.closed /\ writeMu = 0
canRotate == rotateRunning /\ rot.pc = "lock" /\ writeMu = 0

\* Fair scheduling: a goroutine that can take its next step, whether taking
\* the writer lock, receiving from or sending on a channel, eventually
\* takes it.  A step that takes the writer lock leaves its goroutine in a
\* position where the step cannot be taken again, so its weak fairness is
\* the same as the step being disabled again and again.
Fairness ==
    /\ \A c \in 1 .. MaxCallers :
           []<>~canLock(c) /\ []<>~canRelock(c) /\ WF_vars(send(c))
    /\ WF_vars(recv)
    /\ []<>~canRotate

\* Concurrent StoreLogs callers, the rotation worker, truncation and Close
\* under fair scheduling.
SpecCloseWait == Init /\ [][NextWaiters]_vars /\ Fairness

\* ---------------------------------------------------- claim vocabulary
MinSet(S) == CHOOSE x \in S : \A y \in S : x <= y
MaxSet(S) == CHOOSE x \in S : \A y \in S : y <= x

\* The indices the caller stored and has not truncated.
HistDom == {k \in Indexes : hist[k] # 0}

\* What FirstIndex, LastIndex and GetLog return in world w of an open WAL.
FirstIndexIn(w) == firstIndex(w, w.s)
LastIndexIn(w) == lastIndex(w, w.s)
GetLogIn(w, index) == getLog(w, w.s, index)

NotFound == [err |-> "ErrNotFound", Data |-> 0]

\* C1: after Open on an empty store and successful StoreLogs calls only (with
\* the rotations they trigger), LastIndex is the highest stored index,
\* FirstIndex the lowest, and GetLog(k) returns the stored payload of every
\* index in between.
C1_AppendRoundTrip ==
    HistDom # {} =>
        /\ LastIndex = [err |-> "nil", index |-> MaxSet(HistDom)]
        /\ FirstIndex = [err |-> "nil", index |-> MinSet(HistDom)]
        /\ \A k \in MinSet(HistDom) .. MaxSet(HistDom) :
               /\ k \in HistDom
               /\ GetLog(k) = [err |-> "nil", Data |-> hist[k]]

\* Entries were stored on both sides of a completed rotation.
C1_Witness ==
    /\ ret = [op |-> "StoreLogs", err |-> "nil"]
    /\ Len(s.segments) = 2
    /\ s.segments[1].SealTime # 0
    /\ Len(testSegments[s.tail].logs) > 0
    /\ Cardinality({hist[k] : k \in HistDom}) = 2

\* The indexes of a batch rise by exactly one from entry to entry.
Consecutive(encoded) ==
    \A i \in 1 .. Len(encoded) - 1 : encoded[i + 1].Index = encoded[i].Index + 1

\* A StoreLogs call can run its body now: the WAL is open and no rotation is
\* in flight for it to wait for.
CanStore == closed = 0 /\ awaitRotate = 0

\* C2: StoreLogs returns an error for every batch whose indexes are not
\* consecutive, and for every batch on a non-empty log whose first index is
\* not LastIndex + 1; it succeeds only for consecutive batches that (on a
\* non-empty log) start at LastIndex + 1.
C2_StoreLogsRejectsGaps ==
    CanStore =>
        \A encoded \in Batches \ {<<>>} :
            (\/ ~Consecutive(encoded)
             \/ LastIndex.index > 0 /\ encoded[1].Index # LastIndex.index + 1)
                => storeLogsLocked(World, encoded).err # "nil"

\* A StoreLogs on a non-empty log was rejected for its indexes.
C2_Witness ==
    /\ ret = [op |-> "StoreLogs", err |-> "non-monotonic log entries"]
    /\ HistDom # {}
    /\ LastIndex.index > 0

\* C3: a StoreLogs that fails the monotonicity check leaves everything as it
\* was, on an empty log too: the committed metadata, the published state, the
\* segment files and the deleted files are those of before the call.
C3_RejectedStoreLogsChangesNothing ==
    [][ret' = [op |-> "StoreLogs", err |-> "non-monotonic log entries"]
           => UNCHANGED <<s, metaState, testSegments, tsSegments, tsDeleted>>]_vars

\* C4: after a successful TruncateFront(x) with FirstIndex <= x <= LastIndex,
\* FirstIndex is x, LastIndex is what it was, GetLog(k) is ErrNotFound for
\* every k < x and returns what it returned before for x <= k <= LastIndex.
C4_TruncateFrontInRange ==
    closed = 0 =>
        \A x \in Indexes :
            LET r == truncateFrontLocked(World, x)
            IN (FirstIndex.index <= x /\ x <= LastIndex.index /\ r.err = "nil") =>
                   /\ FirstIndexIn(r.w) = x
                   /\ LastIndexIn(r.w) = LastIndex.index
                   /\ \A k \in Indexes : k < x => GetLogIn(r.w, k) = NotFound
                   /\ \A k \in x .. LastIndex.index : GetLogIn(r.w, k) = GetLog(k)

\* A front truncation that deleted a whole segment and left entries behind.
C4_Witness ==
    /\ ret = [op |-> "TruncateFront", err |-> "nil"]
    /\ tsDeleted # {}
    /\ FirstIndex.index > 1
    /\ GetLog(FirstIndex.index).err = "nil"
    /\ HistDom = FirstIndex.index .. LastIndex.index

\* The StoreLogs that follows a call made in world w: when a rotation is in
\* flight it waits for the worker's rotate first.
NextStoreLogs(w, encoded) ==
    IF awaitRotate = 1
    THEN storeLogsLocked(rotateSegmentLocked(w, TestIndexStart).w, encoded)
    ELSE storeLogsLocked(w, encoded)

\* C5: after a successful TruncateBack(x) with FirstIndex <= x <= LastIndex on
\* a log that holds entries, LastIndex is x, FirstIndex is what it was,
\* GetLog(k) is ErrNotFound for every k > x and returns what it returned
\* before for FirstIndex <= k <= x, and the next StoreLogs succeeds if it
\* starts at x + 1 and fails if it starts anywhere else.
C5_TruncateBackInRange ==
    closed = 0 =>
        \A x \in Indexes :
            LET r == truncateBackLocked(World, x)
            IN (/\ 1 <= FirstIndex.index
                /\ FirstIndex.index <= x /\ x <= LastIndex.index
                /\ r.err = "nil") =>
                   /\ LastIndexIn(r.w) = x
                   /\ FirstIndexIn(r.w) = FirstIndex.index
                   /\ \A k \in Indexes : k > x => GetLogIn(r.w, k) = NotFound
                   /\ \A k \in FirstIndex.index .. x : GetLogIn(r.w, k) = GetLog(k)
                   /\ \A encoded \in Batches \ {<<>>} :
                          IF encoded[1].Index = x + 1
                          THEN Consecutive(encoded)
                                   => NextStoreLogs(r.w, encoded).err = "nil"
                          ELSE NextStoreLogs(r.w, encoded).err # "nil"

\* C6: TruncateFront(LastIndex + k), k >= 1, on a non-empty log succeeds and
\* leaves the log empty: FirstIndex and LastIndex are 0 and every GetLog is
\* ErrNotFound; the next StoreLogs may start at any index b >= 1, succeeds,
\* and afterwards FirstIndex is b and LastIndex the last index of the batch.
C6_TruncateFrontBeyondLast ==
    closed = 0 =>
        \A x \in Indexes :
            LET r == truncateFrontLocked(World, x)
            IN (LastIndex.index > 0 /\ x > LastIndex.index) =>
                   /\ r.err = "nil"
                   /\ FirstIndexIn(r.w) = 0
                   /\ LastIndexIn(r.w) = 0
                   /\ \A k \in Indexes : GetLogIn(r.w, k) = NotFound
                   /\ \A encoded \in Batches \ {<<>>} :
                          (encoded[1].Index >= 1 /\ Consecutive(encoded)) =>
                              LET n == NextStoreLogs(r.w, encoded)
                              IN /\ n.err = "nil"
                                 /\ FirstIndexIn(n.w) = encoded[1].Index
                                 /\ LastIndexIn(n.w) = Last(encoded).Index

\* C7: TruncateBack(x) with x < FirstIndex fails with ErrOutOfRange and
\* changes nothing.
C7_TruncateBackBelowFirst ==
    closed = 0 =>
        \A x \in Indexes :
            x < FirstIndex.index =>
                truncateBackLocked(World, x) = [err |-> "ErrOutOfRange", w |-> World]

\* A TruncateBack below the first index of a front-truncated log was refused.
C7_Witness ==
    /\ ret = [op |-> "TruncateBack", err |-> "ErrOutOfRange"]
    /\ FirstIndex.index > 1

\* C8: TruncateFront(x) with x < FirstIndex and TruncateBack(x) with
\* x > LastIndex succeed and change nothing: no commit, no published state,
\* no segment created, closed or deleted.
C8_TruncateOutsideIsNoOp ==
    closed = 0 =>
        \A x \in Indexes :
            /\ x < FirstIndex.index =>
                   truncateFrontLocked(World, x) = [err |-> "nil", w |-> World]
            /\ x > LastIndex.index =>
                   truncateBackLocked(World, x) = [err |-> "nil", w |-> World]

\* A successful TruncateBack on a log that holds entries and has never had a
\* second segment: a TruncateBack that acted would have allocated one.
C8_Witness ==
    /\ ret = [op |-> "TruncateBack", err |-> "nil"]
    /\ HistDom # {}
    /\ s.nextSegmentID = 1

\* C9: whenever the log holds no entries, FirstIndex and LastIndex both
\* return 0, although the segment map holds an empty tail whose base index
\* is not 0.
C9_EmptyLogReportsZero ==
    (closed = 0 /\ HistDom = {}) =>
        /\ FirstIndex = [err |-> "nil", index |-> 0]
        /\ LastIndex = [err |-> "nil", index |-> 0]
        /\ HasTailInfo(s)
        /\ getTailInfo(s).BaseIndex # 0

\* The log was emptied by a front truncation beyond its last entry.
C9_Witness ==
    /\ ret = [op |-> "TruncateFront", err |-> "nil"]
    /\ HistDom = {}
    /\ tsDeleted # {}
    /\ getTailInfo(s).BaseIndex > 1

\* C10: in every state of an open WAL, GetLog(idx) succeeds exactly when the
\* log is non-empty and FirstIndex <= idx <= LastIndex, and is ErrNotFound
\* otherwise; what it returns is the entry the caller stored, never one that
\* was truncated away.
C10_GetLogExactlyInRange ==
    closed = 0 =>
        \A idx \in Indexes :
            IF LastIndex.index > 0 /\ FirstIndex.index <= idx /\ idx <= LastIndex.index
            THEN GetLog(idx) = [err |-> "nil", Data |-> hist[idx]] /\ hist[idx] # 0
            ELSE GetLog(idx) = NotFound

\* What a call returns that starts on a closed WAL: nil from Close, ErrClosed
\* from everything else.
ClosedResult(r) == r.err = (IF r.op = "Close" THEN "nil" ELSE "ErrClosed")

\* C11: Close is idempotent.  Once Close has returned, FirstIndex, LastIndex
\* and GetLog fail with ErrClosed, and every call that starts (a later Close,
\* StoreLogs, TruncateFront, TruncateBack) returns nil for Close and ErrClosed
\* otherwise and changes neither the closed flag, the committed metadata, the
\* segment files nor the published state.
C11_CloseIsFinal ==
    /\ [](closed = 1 =>
              /\ FirstIndex.err = "ErrClosed"
              /\ LastIndex.err = "ErrClosed"
              /\ \A k \in Indexes : GetLog(k).err = "ErrClosed")
    /\ [][closed = 1 =>
              /\ ClosedResult(ret')
              /\ UNCHANGED <<closed, s, metaState, testSegments, tsSegments,
                             tsDeleted, awaitRotate, hist>>]_vars

\* A StoreLogs was refused on a WAL that was closed with entries in it, after
\* a second Close.
C11_Witness ==
    /\ closed = 1
    /\ ret = [op |-> "StoreLogs", err |-> "ErrClosed"]
    /\ HistDom # {}
    /\ metaState.NextSegmentID > 1
    /\ ~rotateRunning


\* C12: in every interleaving of Close with a call in flight, a call that
\* passed its closed check before Close and takes the writer lock, or loads
\* the state, after Close returns ErrClosed without changing anything: it
\* never operates on the empty state Close published and never commits
\* metadata after Close.  (A call that runs before Close runs against the
\* state before Close, which is the other outcome the claim allows.)
C12_CloseVersusInFlight ==
    [][(pending # NoCall /\ pending' = NoCall /\ closed = 1)
          => /\ ret'.err = "ErrClosed"
             /\ UNCHANGED <<s, metaState, testSegments, tsSegments, tsDeleted>>]_vars


\* C13: when a WAL that was closed is opened again on the same metadata and
\* segment files, Open returns no error and FirstIndex, LastIndex and the
\* payload of every index are what they were when Close was called.
C13_RestartRoundTrip ==
    [][(closed = 1 /\ ret'.op = "Open")
          => /\ ret'.err = "nil"
             /\ View(World)' = snap]_vars


\* The storage left by a process that died in its first Open on an empty
\* directory, after the commit of segment 0 and before the creation of its
\* file.
OpenCrashed ==
    [OpenEmpty EXCEPT !.s = emptyState, !.testSegments = <<>>, !.tsSegments = {}]

\* What the reads return on a log that holds exactly the entries of h.
ViewOf(h) ==
    LET dom == {k \in Indexes : h[k] # 0}
    IN [first |-> IF dom = {} THEN 0 ELSE MinSet(dom),
        last |-> IF dom = {} THEN 0 ELSE MaxSet(dom),
        logs |-> h]

\* The indexes the next StoreLogs may start at in world w: LastIndex + 1, or
\* any index from 1 on an empty log.
NextExpected(w) ==
    {k \in Indexes \ {0} : LastIndexIn(w) = 0 \/ k = LastIndexIn(w) + 1}

\* C14: when the process dies after a MetaStore commit and before the file
\* of the new segment is created (in Open, in a rotation, in a back
\* truncation, in a front truncation that removes every segment, in the
\* re-basing of an empty log), the next Open returns no error, creates the
\* file of the tail, makes FirstIndex, LastIndex and the entries those of the
\* committed metadata, and a StoreLogs at the next expected index succeeds.
C14_CrashBeforeCreate ==
    /\ Open(OpenCrashed) = [err |-> "nil", w |-> OpenEmpty]
    /\ ret.op = "crash, Open"
          => /\ ret.err = "nil"
             /\ s.tail \in tsSegments
             /\ View(World) = ViewOf(hist)
             /\ \A k \in NextExpected(World), d \in Data :
                   storeLogsLocked(World, <<[Index |-> k, Data |-> d]>>).err = "nil"


\* The IDs of the segments of a PersistentState.
MetaIDs(ps) == {ps.Segments[i].ID : i \in 1 .. Len(ps.Segments)}

\* C15: Open deletes exactly the segment files that List returns and whose
\* ID is not in the PersistentState it loaded, and none that is in it; it
\* deletes only after it has recovered and published the state, so an Open
\* that fails deletes nothing; after Open no reader refers to a deleted
\* file, so no entry of a deleted file can be read.
C15_OpenPrunesOrphans ==
    [][ret'.op \in {"Open", "crash, Open"}
          => IF ret'.err = "nil"
             THEN /\ tsSegments \ tsSegments' = tsSegments \ MetaIDs(metaState')
                  /\ tsDeleted' = tsDeleted \cup (tsSegments \ MetaIDs(metaState'))
                  /\ MetaIDs(metaState') \subseteq tsSegments'
                  /\ \A i \in 1 .. Len(s'.segments) :
                        s'.segments[i].r \in tsSegments' \ tsDeleted'
             ELSE /\ tsSegments \subseteq tsSegments'
                  /\ tsDeleted' = tsDeleted]_vars

\* Open has deleted the file of a segment that a truncation had committed
\* away before the process died: the file holds entries and no finalizer
\* ever closed it.
C15_Witness ==
    /\ ret = [op |-> "crash, Open", err |-> "nil"]
    /\ \E id \in tsDeleted :
          /\ id \notin tsSegments
          /\ id \notin MetaIDs(metaState)
          /\ ~testSegments[id].closed
          /\ Len(testSegments[id].logs) > 0


\* At most one segment of the list is unsealed, and it is the last one.
OneUnsealedLast(Segments) ==
    \A i \in 1 .. Len(Segments) : Segments[i].SealTime = 0 => i = Len(Segments)

\* C16: every committed PersistentState has at most one unsealed segment,
\* and that segment is the last of its segment list.
C16_OneUnsealedTailLast == OneUnsealedLast(metaState.Segments)

\* C17: of two consecutive segments A, B of the published state and of the
\* committed metadata, B starts where A ends: B.BaseIndex = A.MaxIndex + 1;
\* also when a truncation runs between the StoreLogs that fills the tail and
\* the rotation of the worker.
Contiguous(Segments) ==
    \A i \in 1 .. Len(Segments) - 1 :
        Segments[i + 1].BaseIndex = Segments[i].MaxIndex + 1

C17_SegmentsContiguous ==
    /\ Contiguous(s.segments)
    /\ Contiguous(metaState.Segments)

\* C18: on an open WAL, FirstIndex is non-zero exactly when LastIndex is, and
\* when both are non-zero FirstIndex <= LastIndex.
C18_FirstLastConsistent ==
    closed = 0 =>
        /\ (FirstIndex.index # 0) <=> (LastIndex.index # 0)
        /\ (FirstIndex.index # 0 /\ LastIndex.index # 0)
              => FirstIndex.index <= LastIndex.index


\* The IDs of the segments of a published state.
StateIDs(st) == {st.segments[i].ID : i \in 1 .. Len(st.segments)}

\* C19: segment IDs are never reused.  Every ID a commit adds to the
\* metadata was in no committed PersistentState before (it is not below the
\* NextSegmentID committed so far) and was never passed to Create (no
\* testSegment was ever made for it); NextSegmentID of the metadata never
\* decreases; and on the open WAL nextSegmentID of the published state and
\* NextSegmentID of the metadata are above the ID of every segment of the
\* published state and of the metadata, also after a transaction whose
\* Create failed.
C19_SegmentIDsNeverReused ==
    /\ [](closed = 0 =>
             \A id \in StateIDs(s) \cup MetaIDs(metaState) :
                 /\ id < s.nextSegmentID
                 /\ id < metaState.NextSegmentID)
    /\ [][/\ metaState'.NextSegmentID >= metaState.NextSegmentID
          /\ \A id \in MetaIDs(metaState') \ MetaIDs(metaState) :
                /\ id >= metaState.NextSegmentID
                /\ id \notin DOMAIN testSegments]_vars


\* C20: metadata before file.  On every path that creates a segment file
\* (Open without a recoverable tail, rotation, back truncation, front
\* truncation that removes every segment, re-basing of the empty tail, and
\* the recovery of a tail whose file is missing) Create(info) is called only
\* when the committed metadata lists info: no segment file was created for
\* an ID that was not in the committed metadata.
C20_MetadataBeforeFile ==
    \A id \in DOMAIN testSegments : testSegments[id].metaFirst

\* A rotation has created the file of the new tail, after two other
\* segments were created since Open.
C20_Witness ==
    /\ ret = [op |-> "runRotate", err |-> "nil"]
    /\ s.tail \in tsSegments
    /\ testSegments[s.tail].metaFirst
    /\ s.tail >= 2
    /\ Len(s.segments) > 1

\* C21: no reader reads from a segment whose reader has been closed or whose
\* file has been deleted, and the finalizer of a state has not run while a
\* reader that loaded that state has not released it yet, in every
\* interleaving of acquireState (loadState, then acquire), the read and the
\* release with the truncations, the re-basing and Close.
C21_ReadersNeverReadRetired ==
    \A r \in 1 .. MaxReaders :
        /\ rd[r].pc = "read" => rd[r].live
        /\ rd[r].pc # "idle" => objs[rd[r].g].runs = 0

\* C22: the finalizer attached to a replaced state runs exactly once: at
\* most once, not before the state has been replaced, and it has run once a
\* replaced state has no reference left; every segment a finalizer retires
\* is named by one finalizer only, is still open and on disk until that
\* finalizer runs, and is closed and deleted once it has run.
C22_FinalizerRunsOnce ==
    /\ \A g \in 0 .. MaxGen :
           /\ objs[g].runs <= 1
           /\ objs[g].runs = 1 \/ objs[g].hasFin => g < gen
           /\ g < gen /\ objs[g].refCount = 0 => objs[g].runs = 1 /\ ~objs[g].hasFin
           /\ objs[g].hasFin => objs[g].runs = 0
           /\ \A id \in objs[g].finalizer.toDelete :
                  IF objs[g].runs = 0
                  THEN id \in tsSegments /\ ~testSegments[id].closed
                  ELSE /\ id \in tsDeleted /\ id \notin tsSegments
                       /\ testSegments[id].closed
    /\ \A g1, g2 \in 0 .. MaxGen :
           g1 # g2 => objs[g1].finalizer.toDelete \cap objs[g2].finalizer.toDelete = {}

\* C22 happens: a reader that held a truncated state was the last to release
\* it, and its release ran the finalizer that deleted a retired segment.
C22_Witness ==
    /\ ret.op = "GetLog, finalizer"
    /\ \E g \in 0 .. MaxGen :
           /\ g < gen /\ objs[g].runs = 1 /\ objs[g].refCount = 0
           /\ objs[g].finalizer.toDelete # {}

\* C29: while a rotation is in flight (awaitRotate is non-nil) no StoreLogs
\* call appends to the tail: whenever a caller that holds the writer lock
\* calls Append, awaitRotate is nil at that moment and the tail has not
\* reported sealed, with any number of concurrent callers.
C29_NoAppendWhileRotating ==
    ret.op \notin {"StoreLogs, Append, rotation pending",
                   "StoreLogs, Append on sealed tail",
                   "StoreLogs, Append on sealed tail, rotation pending"}

\* The rotation triggers that were sent and that the worker has not yet
\* completed: in the buffer of triggerRotate, or received and waiting for
\* the writer lock.
Outstanding ==
    Len(triggerRotate.buf) + (IF rot.pc = "lock" /\ rot.indexStart # 0 THEN 1 ELSE 0)

\* C30: the send on the 1-buffered triggerRotate under the writer lock never
\* blocks: no caller is ever held in the send, and at every moment at most
\* one rotation trigger is outstanding, in every interleaving of StoreLogs
\* callers, truncations and the rotation worker.
C30_TriggerNeverBlocks ==
    /\ \A c \in 1 .. MaxCallers : sl[c].pc # "send"
    /\ Outstanding <= 1

\* C23: under fair scheduling every call eventually returns, in every
\* interleaving; in particular a StoreLogs that passed its closed check,
\* also one that released the writer lock to wait for a rotation in flight,
\* eventually returns even if Close is called while it waits.
C23_EveryCallReturns ==
    \A c \in 1 .. MaxCallers : (sl[c].pc # "idle") ~> (sl[c].pc = "idle")

\* C24: across a StoreLogs call and across a rotation of the worker the
\* LastIndex a reader observes never decreases (truncations may lower it); in
\* particular it does not drop when the rotation publishes the new empty
\* tail, and a successful StoreLogs leaves it at the last index of its batch.
C24_LastIndexNeverDecreases ==
    [][(ret'.op \in {"StoreLogs", "runRotate"} /\ LastIndex.err = "nil" /\ LastIndex'.err = "nil")
           => /\ LastIndex'.index >= LastIndex.index
              /\ (ret' = [op |-> "StoreLogs", err |-> "nil"] /\ hist' # hist)
                     => LastIndex'.index > LastIndex.index]_vars

\* The errors with which mutateStateLocked aborts before it commits or
\* because the commit failed.
AbortErrors ==
    {"commitErr", "no tail found during rotate",
     "can't reset BaseIndex on segment, log is not empty"}

\* C25: a call whose transaction function returned an error, or whose
\* MetaStore commit failed, leaves the committed metadata, the published
\* state and the segment files as they were, attaches no finalizer (no
\* segment is closed or deleted) and runs no post-commit action (no segment
\* file is created).
C25_AbortChangesNothing ==
    [][ret'.err \in AbortErrors
           => UNCHANGED <<s, metaState, testSegments, tsSegments, tsDeleted>>]_vars

\* The errors of a postCommit: those of the Create of the new segment file.
PostCommitErrors == {"createErr", "segment ID already exists"}

\* The open and closed status of every test segment.
ClosedFlags == [id \in DOMAIN testSegments |-> testSegments[id].closed]

\* Open by a new process on the storage of world w, once Create no longer
\* fails, returns a WAL on which the tail has its file and a StoreLogs at the
\* next expected index succeeds.
OpensUsable(w) ==
    LET r == Open(restart([w EXCEPT !.createErr = FALSE]))
    IN /\ r.err = "nil"
       /\ r.w.s.tail \in r.w.tsSegments
       /\ \A k \in NextExpected(r.w), d \in Data :
              storeLogsLocked(r.w, <<[Index |-> k, Data |-> d]>>).err = "nil"

\* The world after the step.
WorldAfter ==
    [s |-> s', metaState |-> metaState', testSegments |-> testSegments',
     tsSegments |-> tsSegments', tsDeleted |-> tsDeleted', createErr |-> createErr',
     commitErr |-> commitErr']

\* C26: when the postCommit of a transaction fails, the new metadata (with
\* the new segment last and NextSegmentID advanced) is committed, the
\* published state is the one of before and the reads return what they
\* returned, no segment is closed or deleted, and an Open on the committed
\* metadata returns a usable WAL.
C26_PostCommitFailure ==
    [][ret'.err \in PostCommitErrors
           => /\ s' = s
              /\ View(WorldAfter) = View(World)
              /\ tsDeleted' = tsDeleted
              /\ \A id \in DOMAIN testSegments :
                     testSegments'[id].closed = ClosedFlags[id]
              /\ metaState'.NextSegmentID = s.nextSegmentID + 1
              /\ Last(metaState'.Segments).ID = s.nextSegmentID
              /\ Last(metaState'.Segments).SealTime = 0
              /\ OpensUsable(WorldAfter)]_vars

\* The sealed segments of the published state.
SealedSegments == SelectSeq(s.segments, LAMBDA e : e.SealTime # 0)

\* The number of entries in the segment files of the set ids.
RECURSIVE EntriesIn(_)
EntriesIn(ids) ==
    IF ids = {} THEN 0
    ELSE LET id == CHOOSE x \in ids : TRUE
         IN Len(testSegments[id].logs) + EntriesIn(ids \ {id})

\* The log is what consecutive appends to a writer that seals at every
\* limit entries leave: no file holds an entry that was truncated away or
\* more than limit entries, and every sealed segment was sealed full.
AppendedOnly ==
    /\ EntriesIn(tsSegments) = Cardinality(HistDom)
    /\ \A id \in tsSegments : Len(testSegments[id].logs) <= limit
    /\ \A i \in 1 .. Len(SealedSegments) :
           /\ SealedSegments[i].ID \in tsSegments
           /\ Len(testSegments[SealedSegments[i].ID].logs) = limit

\* An append-only log of N entries lies in N \div limit sealed segments
\* and one unsealed tail, the full tail counting as sealed while its
\* rotation is pending.
SegmentCount ==
    AppendedOnly
       => /\ Len(SealedSegments) + awaitRotate = Cardinality(HistDom) \div limit
          /\ Len(s.segments) = Len(SealedSegments) + 1
          /\ Last(s.segments).SealTime = 0

\* C27: a completed rotation is one transaction: it marks the previous tail
\* sealed with MaxIndex the last index written to it and IndexStart the
\* value its writer reported, adds exactly one unsealed tail with BaseIndex
\* that MaxIndex + 1 and ID the previous nextSegmentID, and advances
\* nextSegmentID by one, in the committed metadata and in the published
\* state alike.  So N consecutive entries appended to a writer that seals
\* at every limit entries leave, once the rotations are done, N \div limit
\* sealed segments and one unsealed tail.
C27_RotationIsOneTransaction ==
    [][/\ ret' = [op |-> "runRotate", err |-> "nil"]
          => LET n == Len(s.segments)
                 tail == s.segments[n]
             IN /\ Len(s'.segments) = n + 1
                /\ \A i \in 1 .. n - 1 : s'.segments[i] = s.segments[i]
                /\ s'.segments[n] =
                       [tail EXCEPT !.SealTime = 1,
                                    !.MaxIndex = segLastIndex(testSegments[tail.ID]),
                                    !.IndexStart = TestIndexStart]
                /\ s'.segments[n + 1] =
                       [newSegment(s.nextSegmentID, s'.segments[n].MaxIndex + 1)
                           EXCEPT !.r = s.nextSegmentID]
                /\ s'.tail = s.nextSegmentID
                /\ s'.nextSegmentID = s.nextSegmentID + 1
                /\ metaState' = Persistent(s')
                /\ tsSegments' = tsSegments \cup {s.nextSegmentID}
       /\ ret'.op \in {"StoreLogs", "runRotate"} => SegmentCount']_vars

\* C28: whenever the worker rotates for a trigger, the segment it marks
\* sealed is the one whose writer reported sealed to the StoreLogs that sent
\* the trigger, and the MaxIndex it records is the last index written to
\* that segment, also when a TruncateFront or TruncateBack took the writer
\* lock between the trigger and the worker.
C28_WorkerSealsReportedSegment ==
    [][ret' = [op |-> "runRotate", err |-> "nil"]
           => /\ segSealed(testSegments[s.tail])
              /\ \E i \in 1 .. Len(s'.segments) :
                     /\ s'.segments[i].ID = s.tail
                     /\ s'.segments[i].SealTime # 0
                     /\ s'.segments[i].MaxIndex = segLastIndex(testSegments[s.tail])]_vars

\* The awaitRotate channels that can be made.
Channels == 1 .. MaxCalls

\* C31: under fair scheduling every rotation trigger a StoreLogs sent is
\* followed by the worker completing that rotation: it sets awaitRotate to
\* nil and closes the channel made for the trigger, once (a close of the nil
\* awaitRotate panics), whatever rotate returned; when the WAL was closed
\* first the worker returns without committing metadata or publishing a
\* state, and after Close the worker goroutine terminates.
C31_EveryTriggerIsCompleted ==
    /\ \A ch \in Channels : (chs.made >= ch) ~> (ch \in chs.closed \/ closed # 0)
    /\ [](ret.err # "panic: close of nil channel")
    /\ (closed = 1) ~> ~rotateRunning
    /\ [][(rotateRunning /\ ~rotateRunning')
              => /\ closed = 1
                 /\ UNCHANGED <<s, metaState, testSegments, tsSegments, tsDeleted>>]_vars
    /\ [][(ret'.op = "runRotate" /\ rot.pc = "lock" /\ closed = 0)
              => /\ awaitRotate' = 0
                 /\ chs'.closed = chs.closed \cup {awaitRotate}
                 /\ awaitRotate \in Channels \ chs.closed]_vars

\* The segments of st whose BaseIndex is at most x, in base order.
KeptBy(st, x) == SelectSeq(st.segments, LAMBDA e : e.BaseIndex <= x)

\* The IDs of the segments of st whose BaseIndex is above x.
RemovedBy(st, x) == {st.segments[i].ID : i \in {j \in 1 .. Len(st.segments) : st.segments[j].BaseIndex > x}}

\* What a successful TruncateBack(x) that reaches truncateTailLocked leaves.
TruncatedBackTo(x) ==
    LET kept == KeptBy(s, x)
        n == Len(kept)
    IN /\ Len(s'.segments) = n + 1
       /\ \A i \in 1 .. n - 1 : s'.segments[i] = kept[i]
       /\ n > 0 => s'.segments[n] = [kept[n] EXCEPT !.SealTime = 1, !.MaxIndex = x]
       /\ RemovedBy(s, x) \subseteq tsDeleted'
       /\ \A id \in RemovedBy(s, x) : testSegments'[id].closed
       /\ tsDeleted' = tsDeleted \cup RemovedBy(s, x)
       /\ s'.segments[n + 1] = [newSegment(s.nextSegmentID, x + 1) EXCEPT !.r = s.nextSegmentID]
       /\ \A i \in 1 .. Len(s.segments) : s.segments[i].ID # s.nextSegmentID
       /\ s.nextSegmentID \notin tsSegments \cup tsDeleted
       /\ s'.tail = s.nextSegmentID
       /\ segLastIndex(testSegments'[s'.tail]) = 0
       /\ metaState' = Persistent(s')

\* C32: a successful TruncateBack(x) with x at most LastIndex removes exactly
\* the segments whose base index is above x (closed and deleted by the
\* finalizer), leaves the last remaining segment sealed with MaxIndex = x, and
\* adds an empty unsealed tail with base index x + 1 and a new ID, also when
\* x = LastIndex and when the tail is empty.
C32_TruncateBackResult ==
    [][\A x \in Indexes :
          (TruncateBack(x) /\ ret'.err = "nil" /\ closed = 0 /\ x <= LastIndex.index)
              => TruncatedBackTo(x)]_vars

\* The bounds a segment info keeps between its indexes.
IndexesInOrder(info) ==
    /\ info.MinIndex >= info.BaseIndex
    /\ info.MaxIndex = 0 \/ info.MaxIndex >= info.MinIndex

\* C33: in every published state and every committed PersistentState, every
\* segment has MinIndex >= BaseIndex and MaxIndex = 0 or MaxIndex >= MinIndex,
\* also after truncations of an empty log and truncations to index 0.
C33_SegmentIndexesInOrder ==
    /\ \A i \in 1 .. Len(s.segments) : IndexesInOrder(s.segments[i])
    /\ \A i \in 1 .. Len(metaState.Segments) : IndexesInOrder(metaState.Segments[i])

\* What StoreLogs(encoded) leaves when it re-bases the empty tail.
RebasedTo(encoded) ==
    LET b == encoded[1].Index
        old == Last(s.segments)
        n == Len(s.segments)
    IN /\ old.ID \in tsDeleted'
       /\ testSegments'[old.ID].closed
       /\ Len(s'.segments) = n
       /\ \A i \in 1 .. n - 1 : s'.segments[i] = s.segments[i]
       /\ s'.segments[n] = [newSegment(s.nextSegmentID, b) EXCEPT !.r = s.nextSegmentID]
       /\ s'.tail = s.nextSegmentID
       /\ metaState' = Persistent(s')
       /\ monotonic(0, encoded)
             => /\ ret'.err = "nil"
                /\ testSegments'[s'.tail].logs = encoded

\* C34: a StoreLogs on an empty log whose first entry has an index b other
\* than the tail's base index retires the empty tail (closed and deleted) and
\* replaces it by a new unsealed tail with BaseIndex = MinIndex = b, for
\* every b, and appends the batch to that tail.
C34_EmptyTailIsRebased ==
    [][\A encoded \in Batches :
          (/\ Len(encoded) > 0
           /\ closed = 0
           /\ LastIndex.index = 0
           /\ encoded[1].Index # Last(s.segments).BaseIndex
           /\ StoreLogs(encoded))
              => RebasedTo(encoded)]_vars

\* The PersistentState p has an unsealed segment that is not its last entry.
UnsealedNotLast(p) ==
    \E i \in 1 .. Len(p.Segments) - 1 : p.Segments[i].SealTime = 0

\* C35: Open on a PersistentState with an unsealed segment that is not the
\* last entry fails, and it commits no metadata, publishes no state, deletes
\* no segment file and starts no rotation worker.
C35_OpenRefusesUnsealedInside ==
    [][(Reopen /\ UnsealedNotLast(metaState))
          => /\ ret'.err # "nil"
             /\ metaState' = metaState
             /\ s' = emptyState
             /\ tsSegments' = tsSegments
             /\ tsDeleted' = tsDeleted
             /\ ~rotateRunning'
             /\ triggerRotate'.buf = <<>>]_vars

\* Open has refused a PersistentState whose unsealed segment is not the last.
C35_Witness ==
    /\ ret = [op |-> "Open", err |-> "unsealed segment is not at tail"]
    /\ UnsealedNotLast(metaState)
    /\ s = emptyState
    /\ ~rotateRunning

\* The state st is complete: every segment has a reader, the tail writer is
\* the writer of the last segment in base order, and that segment is unsealed.
Complete(st) ==
    /\ Len(st.segments) > 0
    /\ \A i \in 1 .. Len(st.segments) : st.segments[i].r # NoSeg
    /\ st.tail # NoSeg
    /\ st.tail = Last(st.segments).r
    /\ st.tail = Last(st.segments).ID
    /\ Last(st.segments).SealTime = 0

\* C36: every state published while the WAL is open, by Open or by a
\* successful transaction, is complete: no segment without a reader, the tail
\* writer is that of the last segment in base order, the last segment is
\* unsealed.
C36_PublishedStateComplete == closed = 0 => Complete(s)

\* A step on which a StoreLogs, holding the writer lock, ends with a sealed
\* tail: the step that calls triggerRotateLocked.
SealingStep ==
    /\ \E c \in 1 .. MaxCallers : sl[c].pc \in {"lock", "wait"} /\ sl'[c].pc \in {"idle", "send"}
    /\ ret'.err = "nil"
    /\ s'.tail # NoSeg
    /\ segSealed(testSegments'[s'.tail])

\* C37: no send on triggerRotate happens once Close has closed it: a
\* StoreLogs that sealed the tail sends (or blocks in the send) while the
\* channel is open, or it finds the closed flag set and leaves the channel
\* and awaitRotate alone; no caller is in the send when the channel is
\* closed, and nothing enters the buffer of the closed channel.
C37_NoSendAfterClose ==
    /\ [][SealingStep =>
             IF closed = 1
             THEN UNCHANGED <<triggerRotate, awaitRotate, chs>>
             ELSE /\ ~triggerRotate.closed
                  /\ ~triggerRotate'.closed
                  /\ \/ triggerRotate'.buf = <<TestIndexStart>> /\ triggerRotate.buf = <<>>
                     \/ \E c \in 1 .. MaxCallers : sl'[c].pc = "send"]_vars
    /\ [][Len(triggerRotate'.buf) > Len(triggerRotate.buf) => ~triggerRotate'.closed]_vars
    /\ [](\A c \in 1 .. MaxCallers : sl[c].pc = "send" => ~triggerRotate.closed)

\* A StoreLogs sealed the tail after Close had swapped the closed flag and
\* before Close got the writer lock: it sent nothing.
C37_Witness ==
    /\ closed = 1
    /\ ~triggerRotate.closed
    /\ ret.err = "nil"
    /\ ret.op \in {"StoreLogs, Append"}
    /\ s.tail # NoSeg
    /\ segSealed(testSegments[s.tail])
    /\ awaitRotate = 0
    /\ triggerRotate.buf = <<>>
    /\ rot.pc = "recv"

============================================================================
